---- MODULE Spec2Model ----
(***************************************************************************)
(* Model of the error-classification and offline-resilience layer of       *)
(* Update_manager: OfflineManager (src/src/utils/offlineManager.ts) and    *)
(* ErrorHandler (src/src/utils/errorHandler.ts).                           *)
(*                                                                         *)
(* JavaScript values are tagged records; a string held by localStorage is  *)
(* represented by what it parses to (or by its raw text when it does not   *)
(* parse), so JSON.stringify and JSON.parse are modelled by what they do   *)
(* to a value.  Chinese user-facing texts are rendered by ASCII names.     *)
(***************************************************************************)
EXTENDS Integers, Sequences, FiniteSets, TLC

VARIABLES
    localStorage,   \* window.localStorage: function from the present keys to their strings
    storageFault,   \* environment: "none", "quota" (setItem throws), "denied" (every access throws)
    offlineConfig,  \* OfflineManager.offlineConfig: the fields of the in-memory object
    onLine,         \* navigator.onLine
    now,            \* Date.now()
    timers,         \* pending setTimeout callbacks of handleError: their due times
    toasts,         \* notifications emitted by the operation that ran last
    calls,          \* setOfflineMode calls made by the operation that ran last
    op,             \* the operation that ran last, with its arguments
    ret,            \* what that operation returned
    putLog,         \* history: per cache name, the value and time of the last cacheData
    enabledBy,      \* history: who called setOfflineMode(true) last
    diag,           \* NetworkDiagnostics: the generateDiagnosticReport call in progress
    net,            \* the pending fetches of the probes, their AbortControllers and timeouts
    documents,      \* the downloaded config file and the clipboard: their texts
    networkStatus,  \* the NetworkStatus component: its state and its pending hide timers
    workerPage      \* the WorkerManagement page: its state, requests in flight, pending timers

vars == << localStorage, storageFault, offlineConfig, onLine, now, timers,
           toasts, calls, op, ret, putLog, enabledBy, diag, net, documents,
           networkStatus, workerPage >>

-----------------------------------------------------------------------------
(* JavaScript values *)

JUndefined == [t |-> "undefined"]
JNull      == [t |-> "null"]
JNaN       == [t |-> "NaN"]
JBool(b)   == [t |-> "boolean", b |-> b]
JNum(n)    == [t |-> "number", n |-> n]
JStr(s)    == [t |-> "string", s |-> s]
JObj(o)    == [t |-> "object", o |-> o]

\* ToBoolean
Truthy(v) ==
    CASE v.t = "undefined" -> FALSE
      [] v.t = "null"      -> FALSE
      [] v.t = "NaN"       -> FALSE
      [] v.t = "boolean"   -> v.b
      [] v.t = "number"    -> v.n # 0
      [] v.t = "string"    -> v.s # ""
      [] OTHER             -> TRUE

\* obj.field of an object value: undefined when the field is missing
Prop(v, field) ==
    IF v.t = "object" /\ field \in DOMAIN v.o THEN v.o[field] ELSE JUndefined

\* { ...a, ...b } on the fields of two objects
Spread(a, b) ==
    [f \in DOMAIN a \cup DOMAIN b |-> IF f \in DOMAIN b THEN b[f] ELSE a[f]]

\* the own enumerable fields a spread copies out of a parsed value
SpreadFields(v) == IF v.t = "object" THEN v.o ELSE << >>

-----------------------------------------------------------------------------
(* JSON *)

RECURSIVE ToJson(_)
\* The value a JSON text produced by JSON.stringify denotes: NaN becomes
\* null, a field holding undefined is left out.
ToJson(v) ==
    CASE v.t = "NaN"    -> JNull
      [] v.t = "object" ->
            JObj([f \in {g \in DOMAIN v.o : v.o[g].t # "undefined"} |-> ToJson(v.o[f])])
      [] OTHER          -> v

JSONstringify(v) == [text |-> "json", value |-> ToJson(v)]

\* a stored string that is no JSON text
CorruptText == [text |-> "corrupt", raw |-> "{oops"]

\* the empty string: no JSON text either
EmptyText == [text |-> "corrupt", raw |-> ""]

\* JSON.parse throws a SyntaxError on it
ParseThrows(s) == s.text # "json"

JSONparse(s) == s.value

RECURSIVE Digits(_)
Digits(n) == IF n < 10 THEN 1 ELSE 1 + Digits(n \div 10)

RECURSIVE JsonLength(_), FieldsLength(_, _)
\* length of the JSON text of a value: "key":value pairs joined by commas
JsonLength(v) ==
    CASE v.t = "null"    -> 4
      [] v.t = "boolean" -> IF v.b THEN 4 ELSE 5
      [] v.t = "number"  -> Digits(v.n)
      [] v.t = "string"  -> Len(v.s) + 2
      [] v.t = "object"  ->
            LET n == Cardinality(DOMAIN v.o)
            IN  2 + FieldsLength(DOMAIN v.o, v.o) + (IF n > 0 THEN n - 1 ELSE 0)
      [] OTHER           -> 0

FieldsLength(S, o) ==
    IF S = {} THEN 0
    ELSE LET f == CHOOSE g \in S : TRUE
         IN  Len(f) + 3 + JsonLength(o[f]) + FieldsLength(S \ {f}, o)

\* String.prototype.length of a stored string
StringLength(s) == IF s.text = "json" THEN JsonLength(s.value) ELSE Len(s.raw)

-----------------------------------------------------------------------------
(* localStorage *)

STORAGE_KEY == "offline-manager-data"
CACHE_DURATION == 86400000

Absent == [text |-> "absent"]

\* localStorage.getItem: null (Absent) for a missing key
GetItem(store, key) == IF key \in DOMAIN store THEN store[key] ELSE Absent

\* !stored of what getItem returned: null or the empty string
Falsy(stored) == stored = Absent \/ stored = EmptyText

SetItem(store, key, s) ==
    [k \in DOMAIN store \cup {key} |-> IF k = key THEN s ELSE store[k]]

RemoveItem(store, key) == [k \in DOMAIN store \ {key} |-> store[k]]

\* which storage calls throw under the current fault
ReadThrows(fault)  == fault = "denied"
WriteThrows(fault) == fault \in {"quota", "denied"}

-----------------------------------------------------------------------------
(* OfflineManager: offline mode *)

\* private offlineConfig = { enabled: false }
DefaultOfflineConfig == [f \in {"enabled"} |-> JBool(FALSE)]

\* a notification of the sonner toast library
Toast(level, text) == [level |-> level, text |-> text]

\* mutant of loadOfflineConfig: the persisted blob replaces the fields
loadOfflineConfigReplacing(cfg, store, fault) ==
    IF ReadThrows(fault) THEN cfg
    ELSE LET stored == GetItem(store, STORAGE_KEY)
         IN  IF Falsy(stored) THEN cfg
             ELSE IF ParseThrows(stored) THEN cfg
             ELSE SpreadFields(JSONparse(stored))

\* loadOfflineConfig: the persisted blob spread over the current fields; a
\* missing blob, a storage error or a parse error leaves them as they are
loadOfflineConfig(cfg, store, fault) ==
    IF ReadThrows(fault) THEN cfg
    ELSE LET stored == GetItem(store, STORAGE_KEY)
         IN  IF Falsy(stored) THEN cfg
             ELSE IF ParseThrows(stored) THEN cfg
             ELSE Spread(cfg, SpreadFields(JSONparse(stored)))

\* mutant of saveOfflineConfig: only the flag is written
saveOfflineConfigFlagOnly(cfg, store, fault) ==
    IF WriteThrows(fault) THEN store
    ELSE SetItem(store, STORAGE_KEY, JSONstringify(JObj([f \in {"enabled"} |-> cfg[f]])))

\* mutant of saveOfflineConfig: the mode is kept in memory only
saveOfflineConfigInMemory(cfg, store, fault) == store

\* saveOfflineConfig: the whole in-memory object replaces the blob; a
\* storage error is logged and swallowed
saveOfflineConfig(cfg, store, fault) ==
    IF WriteThrows(fault) THEN store
    ELSE SetItem(store, STORAGE_KEY, JSONstringify(JObj(cfg)))

\* The operations below transform a world w = [cfg, store, toasts, calls].

World == [cfg |-> offlineConfig, store |-> localStorage, toasts |-> << >>, calls |-> << >>]

EmitToast(w, level, text) == [w EXCEPT !.toasts = Append(@, Toast(level, text))]

\* mutant of setOfflineMode: the toast only when the flag was off before
setOfflineModeOnTransition(w, enabled, fault) ==
    LET cfg1 == [w.cfg EXCEPT !["enabled"] = JBool(enabled)]
        w1   == [w EXCEPT !.cfg = cfg1,
                          !.store = saveOfflineConfig(cfg1, w.store, fault),
                          !.calls = Append(@, enabled)]
    IN  IF enabled /\ ~Truthy(w.cfg["enabled"])
        THEN EmitToast(w1, "info", "offline-mode-enabled") ELSE w1

setOfflineMode(w, enabled, fault) ==
    LET cfg1 == [w.cfg EXCEPT !["enabled"] = JBool(enabled)]
        w1   == [w EXCEPT !.cfg = cfg1,
                          !.store = saveOfflineConfig(cfg1, w.store, fault),
                          !.calls = Append(@, enabled)]
    IN  IF enabled THEN EmitToast(w1, "info", "offline-mode-enabled") ELSE w1

\* mutant of isOfflineMode: enabled && !navigator.onLine
isOfflineModeBoth(cfg, online) ==
    IF Truthy(cfg["enabled"]) THEN JBool(~online) ELSE cfg["enabled"]

\* isOfflineMode: enabled || !navigator.onLine
isOfflineMode(cfg, online) ==
    IF Truthy(cfg["enabled"]) THEN cfg["enabled"] ELSE JBool(~online)

\* mutant of onOnline: regained connectivity leaves offline mode as it is
onOnlineKeepsMode(w, fault) == w

\* the 'online' listener of setupNetworkListeners
onOnline(w, fault) ==
    IF Truthy(w.cfg["enabled"])
    THEN setOfflineMode(EmitToast(w, "success", "network-restored-leaving-offline-mode"),
                        FALSE, fault)
    ELSE w

\* the 'offline' listener of setupNetworkListeners
onOffline(w, fault) ==
    setOfflineMode(EmitToast(w, "warning", "network-lost-enabling-offline-mode"), TRUE, fault)

-----------------------------------------------------------------------------
(* OfflineManager: cache *)

CacheKey(key) == "cache-" \o key

\* key.startsWith('cache-')
IsCacheKey(key) == Len(key) >= Len("cache-") /\ SubSeq(key, 1, Len("cache-")) = "cache-"

\* reading a property of null or undefined throws a TypeError
AccessThrows(v) == v.t \in {"null", "undefined"}

\* mutant of IsExpired: an entry expires when it is exactly CACHE_DURATION old
IsExpiredAtLimit(entry, t) ==
    LET ts == Prop(entry, "timestamp")
    IN  ts.t = "number" /\ t - ts.n >= CACHE_DURATION

\* Date.now() - cacheData.timestamp > CACHE_DURATION; a timestamp that is
\* no number makes the difference NaN and the comparison false
IsExpired(entry, t) ==
    LET ts == Prop(entry, "timestamp")
    IN  ts.t = "number" /\ t - ts.n > CACHE_DURATION

\* mutant of cacheData: the catch drops the entry it could not replace
cacheDataDropsOnError(store, key, data, t, fault) ==
    IF WriteThrows(fault) THEN RemoveItem(store, CacheKey(key))
    ELSE SetItem(store, CacheKey(key),
                 JSONstringify(JObj([f \in {"data", "timestamp"} |->
                                        IF f = "data" THEN data ELSE JNum(t)])))

\* cacheData: { data, timestamp: Date.now() } under cache-<key>
cacheData(store, key, data, t, fault) ==
    IF WriteThrows(fault) THEN store
    ELSE SetItem(store, CacheKey(key),
                 JSONstringify(JObj([f \in {"data", "timestamp"} |->
                                        IF f = "data" THEN data ELSE JNum(t)])))

\* mutant of getCachedData: the catch removes the entry
getCachedDataEvicting(store, key, t, fault) ==
    IF ReadThrows(fault) THEN [ret |-> JNull, store |-> store]
    ELSE LET stored == GetItem(store, CacheKey(key))
         IN  IF Falsy(stored) THEN [ret |-> JNull, store |-> store]
             ELSE IF ParseThrows(stored) \/ AccessThrows(JSONparse(stored))
                     \/ IsExpired(JSONparse(stored), t)
                  THEN [ret |-> JNull, store |-> RemoveItem(store, CacheKey(key))]
             ELSE [ret |-> Prop(JSONparse(stored), "data"), store |-> store]

\* getCachedData: [ret, store]
getCachedData(store, key, t, fault) ==
    IF ReadThrows(fault) THEN [ret |-> JNull, store |-> store]
    ELSE LET stored == GetItem(store, CacheKey(key))
         IN  IF Falsy(stored) THEN [ret |-> JNull, store |-> store]
             ELSE IF ParseThrows(stored) \/ AccessThrows(JSONparse(stored))
                  THEN [ret |-> JNull, store |-> store]
             ELSE IF IsExpired(JSONparse(stored), t)
                  THEN [ret |-> JNull, store |-> RemoveItem(store, CacheKey(key))]
             ELSE [ret |-> Prop(JSONparse(stored), "data"), store |-> store]

\* mutant of SweptKeys: every key of the store is swept, whatever its prefix
SweptKeysOfEveryPrefix(store, t) ==
    {k \in DOMAIN store :
        /\ ~Falsy(store[k])
        /\ \/ ParseThrows(store[k])
           \/ AccessThrows(JSONparse(store[k]))
           \/ IsExpired(JSONparse(store[k]), t)}

\* the keys cleanExpiredCache removes: expired entries, and entries whose
\* reading throws (the inner catch); an empty string is passed over
SweptKeys(store, t) ==
    {k \in DOMAIN store :
        /\ IsCacheKey(k)
        /\ ~Falsy(store[k])
        /\ \/ ParseThrows(store[k])
           \/ AccessThrows(JSONparse(store[k]))
           \/ IsExpired(JSONparse(store[k]), t)}

cleanExpiredCache(store, t, fault) ==
    IF ReadThrows(fault) THEN store
    ELSE [k \in DOMAIN store \ SweptKeys(store, t) |-> store[k]]

RECURSIVE TotalSize(_, _)
TotalSize(S, store) ==
    IF S = {} THEN 0
    ELSE LET k == CHOOSE j \in S : TRUE
         IN  StringLength(store[k]) + TotalSize(S \ {k}, store)

\* the timestamps getCacheStats compares with oldestTimestamp
ReadableTimestamps(store) ==
    {Prop(JSONparse(store[k]), "timestamp").n :
        k \in {j \in DOMAIN store :
                  /\ IsCacheKey(j)
                  /\ ~Falsy(store[j])
                  /\ ~ParseThrows(store[j])
                  /\ Prop(JSONparse(store[j]), "timestamp").t = "number"}}

Min(S) == CHOOSE m \in S : \A n \in S : m <= n

\* mutant of getCacheStats: the length is added once the string has parsed
getCacheStatsParsedOnly(store, t, fault) ==
    IF ReadThrows(fault)
    THEN [totalItems |-> 0, totalSize |-> 0, oldestItem |-> JUndefined]
    ELSE LET cacheKeys == {k \in DOMAIN store : IsCacheKey(k)}
         IN  [totalItems |-> Cardinality(cacheKeys),
              totalSize  |-> TotalSize({k \in cacheKeys : ~ParseThrows(store[k])}, store),
              oldestItem |-> IF Cardinality(cacheKeys) > 0
                             THEN JNum(Min(ReadableTimestamps(store) \cup {t}))
                             ELSE JUndefined]

\* getCacheStats: { totalItems, totalSize, oldestItem }
getCacheStats(store, t, fault) ==
    IF ReadThrows(fault)
    THEN [totalItems |-> 0, totalSize |-> 0, oldestItem |-> JUndefined]
    ELSE LET cacheKeys == {k \in DOMAIN store : IsCacheKey(k)}
         IN  [totalItems |-> Cardinality(cacheKeys),
              totalSize  |-> TotalSize(cacheKeys, store),
              oldestItem |-> IF Cardinality(cacheKeys) > 0
                             THEN JNum(Min(ReadableTimestamps(store) \cup {t}))
                             ELSE JUndefined]

-----------------------------------------------------------------------------
(* Regular expressions of ErrorHandler.ERROR_PATTERNS *)

UpperLetters == "ABCDEFGHIJKLMNOPQRSTUVWXYZ"
LowerLetters == "abcdefghijklmnopqrstuvwxyz"

LowerMap ==
    [c \in {SubSeq(UpperLetters, i, i) : i \in 1..Len(UpperLetters)} |->
        LET i == CHOOSE j \in 1..Len(UpperLetters) : SubSeq(UpperLetters, j, j) = c
        IN  SubSeq(LowerLetters, i, i)]

RECURSIVE Lower(_)
\* the text with its letters in lower case (the i flag of every pattern)
Lower(s) ==
    IF Len(s) = 0 THEN ""
    ELSE IF Len(s) = 1 THEN (IF s \in DOMAIN LowerMap THEN LowerMap[s] ELSE s)
    ELSE LET half == Len(s) \div 2
         IN  Lower(SubSeq(s, 1, half)) \o Lower(SubSeq(s, half + 1, Len(s)))

\* positions at which the literal lit occurs in s
Occurrences(s, lit) ==
    {i \in 1..(Len(s) - Len(lit) + 1) : SubSeq(s, i, i + Len(lit) - 1) = lit}

IsDigit(c) == c \in {"0", "1", "2", "3", "4", "5", "6", "7", "8", "9"}

\* the alternatives of a pattern
Lit(s)    == [k |-> "lit", s |-> s]            \* a literal
Gap(a, b) == [k |-> "gap", a |-> a, b |-> b]   \* a.*b : b after a on the same line
FiveXX    == [k |-> "5dd"]                     \* 5\d{2}

MatchAlt(alt, s) ==
    CASE alt.k = "lit" -> Occurrences(s, alt.s) # {}
      [] alt.k = "gap" ->
            \E i \in Occurrences(s, alt.a) : \E j \in Occurrences(s, alt.b) :
                /\ j >= i + Len(alt.a)
                /\ Occurrences(SubSeq(s, i + Len(alt.a), j - 1), "\n") = {}
      [] alt.k = "5dd" ->
            \E i \in Occurrences(s, "5") :
                /\ i + 2 <= Len(s)
                /\ IsDigit(SubSeq(s, i + 1, i + 1))
                /\ IsDigit(SubSeq(s, i + 2, i + 2))

\* RegExp.prototype.test of a case-insensitive pattern on a lower-cased text
Test(pattern, lowered) == \E alt \in pattern : MatchAlt(alt, lowered)

ERROR_PATTERNS ==
    [NETWORK_FAILED   |-> {Lit("net::err_failed"), Lit("failed to fetch"),
                           Lit("network request failed")},
     NETWORK_TIMEOUT  |-> {Lit("timeout"), Lit("etimedout"), Lit("request timed out")},
     NETWORK_OFFLINE  |-> {Lit("net::err_internet_disconnected"), Lit("offline")},
     DNS_FAILED       |-> {Lit("net::err_name_not_resolved"), Lit("dns")},
     CORS_ERROR       |-> {Lit("cors"), Lit("cross-origin"), Lit("access-control")},
     API_UNAUTHORIZED |-> {Lit("401"), Lit("unauthorized"), Lit("invalid token")},
     API_FORBIDDEN    |-> {Lit("403"), Lit("forbidden"), Lit("access denied")},
     API_NOT_FOUND    |-> {Lit("404"), Lit("not found"), Lit("worker not found")},
     API_RATE_LIMIT   |-> {Lit("429"), Lit("too many requests"), Lit("rate limit")},
     API_SERVER_ERROR |-> {FiveXX, Lit("internal server error"), Lit("service unavailable")},
     CONFIG_MISSING   |-> {Lit("api token"), Lit("account id"),
                           Gap("worker id", "required"), Lit("not configured")},
     CONFIG_INVALID   |-> {Gap("invalid", "format"), Lit("malformed")}]

-----------------------------------------------------------------------------
(* ErrorHandler: classification *)

\* extractErrorMessage
extractErrorMessage(error) ==
    IF error.t = "string" THEN error.s
    ELSE IF Truthy(Prop(error, "message")) THEN Prop(error, "message").s
    ELSE IF Truthy(Prop(error, "error")) THEN Prop(error, "error").s
    ELSE IF Truthy(Prop(error, "statusText")) THEN Prop(error, "statusText").s
    ELSE "unknown error"

\* `${x || ''}` of an optional string
OrEmpty(v) == IF Truthy(v) THEN v.s ELSE ""

\* `${errorMessage} ${error?.stack || ''} ${context || ''}`
errorString(error, context) ==
    extractErrorMessage(error) \o " " \o OrEmpty(Prop(error, "stack")) \o " " \o OrEmpty(context)

\* an ErrorInfo that leaves shouldEnableOfflineMode out
Info(type, severity, message, details, suggestions, canRetry) ==
    [type |-> type, severity |-> severity, message |-> message, details |-> details,
     suggestions |-> suggestions, canRetry |-> canRetry]

\* an ErrorInfo with shouldEnableOfflineMode: true
OfflineInfo(type, severity, message, details, suggestions, canRetry) ==
    [type |-> type, severity |-> severity, message |-> message, details |-> details,
     suggestions |-> suggestions, canRetry |-> canRetry, shouldEnableOfflineMode |-> TRUE]

createNetworkFailedError(message) ==
    OfflineInfo("network", "high", "network-connection-failed", message,
                << "check-network-connection", "check-firewall-or-proxy",
                   "try-offline-mode", "check-cloudflare-api-status",
                   "run-network-diagnostics" >>, TRUE)

createTimeoutError(message) ==
    OfflineInfo("timeout", "medium", "request-timed-out", message,
                << "check-network-speed", "retry-later", "consider-offline-mode",
                   "check-proxy-speed" >>, TRUE)

createOfflineError(message) ==
    OfflineInfo("network", "high", "device-is-offline", message,
                << "check-network-connection", "enable-offline-mode",
                   "resync-after-reconnecting" >>, FALSE)

createDnsError(message) ==
    Info("network", "high", "dns-resolution-failed", message,
         << "check-dns-settings", "try-another-dns-server", "check-network-connection",
            "contact-network-administrator" >>, TRUE)

createCorsError(message) ==
    Info("cors", "medium", "cross-origin-request-blocked", message,
         << "browser-security-policy", "try-https", "check-worker-cors-settings",
            "consider-extension-or-proxy" >>, TRUE)

\* mutant of createAuthError: the diagnosis is retryable
createAuthErrorRetryable(message) ==
    Info("auth", "high", "api-token-invalid-or-expired", message,
         << "check-api-token", "check-token-expiry", "regenerate-api-token",
            "check-token-permissions" >>, TRUE)

createAuthError(message) ==
    Info("auth", "high", "api-token-invalid-or-expired", message,
         << "check-api-token", "check-token-expiry", "regenerate-api-token",
            "check-token-permissions" >>, FALSE)

createForbiddenError(message) ==
    Info("auth", "high", "insufficient-permissions", message,
         << "check-api-token-permissions", "check-account-id", "contact-administrator",
            "check-worker-access-settings" >>, FALSE)

createNotFoundError(message) ==
    Info("api", "medium", "resource-not-found", message,
         << "check-worker-id", "check-account-id", "check-worker-deployed",
            "verify-api-endpoint" >>, FALSE)

createRateLimitError(message) ==
    OfflineInfo("api", "medium", "api-rate-limit-exceeded", message,
                << "wait-and-retry", "reduce-api-call-rate", "consider-upgrading-plan",
                   "use-offline-mode" >>, TRUE)

createServerError(message) ==
    OfflineInfo("api", "high", "cloudflare-server-error", message,
                << "retry-later", "check-cloudflare-status", "use-offline-mode",
                   "contact-cloudflare-support" >>, TRUE)

createConfigMissingError(message) ==
    Info("config", "critical", "configuration-missing", message,
         << "set-api-token-in-configuration", "fill-in-account-id", "check-worker-id",
            "save-and-retry" >>, FALSE)

createConfigInvalidError(message) ==
    Info("config", "high", "configuration-format-invalid", message,
         << "check-api-token-format", "check-account-id-format", "check-worker-id-format",
            "consult-official-documentation" >>, FALSE)

createUnknownError(message) ==
    Info("unknown", "medium", "unknown-error", message,
         << "refresh-the-page", "check-browser-console", "run-network-diagnostics",
            "contact-support" >>, TRUE)

\* mutant of analyzeError: the offline pattern is tested before the
\* connection-failure pattern
analyzeErrorOfflineFirst(error, context) ==
    LET errorMessage == extractErrorMessage(error)
        text         == Lower(errorString(error, context))
    IN  IF Test(ERROR_PATTERNS.NETWORK_OFFLINE, text) THEN createOfflineError(errorMessage)
        ELSE IF Test(ERROR_PATTERNS.NETWORK_FAILED, text)
             THEN createNetworkFailedError(errorMessage)
        ELSE IF Test(ERROR_PATTERNS.NETWORK_TIMEOUT, text) THEN createTimeoutError(errorMessage)
        ELSE IF Test(ERROR_PATTERNS.DNS_FAILED, text) THEN createDnsError(errorMessage)
        ELSE IF Test(ERROR_PATTERNS.CORS_ERROR, text) THEN createCorsError(errorMessage)
        ELSE IF Test(ERROR_PATTERNS.API_UNAUTHORIZED, text) THEN createAuthError(errorMessage)
        ELSE IF Test(ERROR_PATTERNS.API_FORBIDDEN, text) THEN createForbiddenError(errorMessage)
        ELSE IF Test(ERROR_PATTERNS.API_NOT_FOUND, text) THEN createNotFoundError(errorMessage)
        ELSE IF Test(ERROR_PATTERNS.API_RATE_LIMIT, text) THEN createRateLimitError(errorMessage)
        ELSE IF Test(ERROR_PATTERNS.API_SERVER_ERROR, text) THEN createServerError(errorMessage)
        ELSE IF Test(ERROR_PATTERNS.CONFIG_MISSING, text)
             THEN createConfigMissingError(errorMessage)
        ELSE IF Test(ERROR_PATTERNS.CONFIG_INVALID, text)
             THEN createConfigInvalidError(errorMessage)
        ELSE createUnknownError(errorMessage)

\* analyzeError: the first pattern, in source order, that the text matches
analyzeError(error, context) ==
    LET errorMessage == extractErrorMessage(error)
        text         == Lower(errorString(error, context))
    IN  IF Test(ERROR_PATTERNS.NETWORK_FAILED, text) THEN createNetworkFailedError(errorMessage)
        ELSE IF Test(ERROR_PATTERNS.NETWORK_TIMEOUT, text) THEN createTimeoutError(errorMessage)
        ELSE IF Test(ERROR_PATTERNS.NETWORK_OFFLINE, text) THEN createOfflineError(errorMessage)
        ELSE IF Test(ERROR_PATTERNS.DNS_FAILED, text) THEN createDnsError(errorMessage)
        ELSE IF Test(ERROR_PATTERNS.CORS_ERROR, text) THEN createCorsError(errorMessage)
        ELSE IF Test(ERROR_PATTERNS.API_UNAUTHORIZED, text) THEN createAuthError(errorMessage)
        ELSE IF Test(ERROR_PATTERNS.API_FORBIDDEN, text) THEN createForbiddenError(errorMessage)
        ELSE IF Test(ERROR_PATTERNS.API_NOT_FOUND, text) THEN createNotFoundError(errorMessage)
        ELSE IF Test(ERROR_PATTERNS.API_RATE_LIMIT, text) THEN createRateLimitError(errorMessage)
        ELSE IF Test(ERROR_PATTERNS.API_SERVER_ERROR, text) THEN createServerError(errorMessage)
        ELSE IF Test(ERROR_PATTERNS.CONFIG_MISSING, text)
             THEN createConfigMissingError(errorMessage)
        ELSE IF Test(ERROR_PATTERNS.CONFIG_INVALID, text)
             THEN createConfigInvalidError(errorMessage)
        ELSE createUnknownError(errorMessage)

\* errorInfo.shouldEnableOfflineMode as a condition (undefined when left out)
SuggestsOffline(info) ==
    "shouldEnableOfflineMode" \in DOMAIN info /\ info.shouldEnableOfflineMode

-----------------------------------------------------------------------------
(* ErrorHandler: retry policy *)

\* a parameter with a default value: the default replaces undefined only
OrDefault(arg, default) == IF arg.t = "undefined" THEN default ELSE arg.n

\* mutant of shouldRetry: one retry too many
shouldRetryOnceMore(errorInfo, retryCount, maxRetriesArg) ==
    LET maxRetries == OrDefault(maxRetriesArg, 3)
    IN  IF ~errorInfo.canRetry \/ retryCount > maxRetries THEN FALSE
        ELSE IF errorInfo.type \in {"auth", "config"} THEN FALSE
        ELSE TRUE

shouldRetry(errorInfo, retryCount, maxRetriesArg) ==
    LET maxRetries == OrDefault(maxRetriesArg, 3)
    IN  IF ~errorInfo.canRetry \/ retryCount >= maxRetries THEN FALSE
        ELSE IF errorInfo.type \in {"auth", "config"} THEN FALSE
        ELSE TRUE

RECURSIVE MathPow(_, _)
MathPow(b, e) == IF e = 0 THEN 1 ELSE b * MathPow(b, e - 1)

MathMin(a, b) == IF a <= b THEN a ELSE b

\* mutant of calculateRetryDelay: linear backoff
calculateRetryDelayLinear(retryCount, baseDelayArg) ==
    MathMin(OrDefault(baseDelayArg, 1000) * 2 * retryCount, 10000)

calculateRetryDelay(retryCount, baseDelayArg) ==
    MathMin(OrDefault(baseDelayArg, 1000) * MathPow(2, retryCount), 10000)

-----------------------------------------------------------------------------
(* Error inputs *)

Messages ==
    {"Failed to fetch", "TypeError: FAILED TO FETCH", "net::ERR_FAILED",
     "Request timed out", "timeout of 5000ms exceeded", "You are offline",
     "offline: Failed to fetch", "net::ERR_NAME_NOT_RESOLVED",
     "blocked by CORS policy", "401 Unauthorized", "403 Forbidden", "404 Not found",
     "429 Too many requests", "HTTP 503", "Internal server error",
     "API token is missing", "Worker ID is required", "required Worker ID",
     "Invalid token format", "Invalid JSON format", "Invalid\nformat",
     "Malformed config", "Something went wrong", ""}

Stacks ==
    {"Error\n    at load (http://localhost:5173/src/api.ts:12:9)",
     "TypeError: Failed to fetch\n    at fetchWorkerCode"}

Contexts == {JUndefined, JStr("fetchWorkerCode"), JStr("request timeout")}

Field1(f, v) == [g \in {f} |-> v]

Errors ==
    {JStr(m) : m \in Messages}
    \cup {JObj(Field1("message", JStr(m))) : m \in Messages}
    \cup {JObj(Spread(Field1("message", JStr(m)), Field1("stack", JStr(st)))) :
              m \in Messages, st \in Stacks}
    \cup {JObj(Field1("error", JStr(m))) : m \in Messages}
    \cup {JObj(Field1("statusText", JStr(m))) : m \in Messages}
    \cup {JObj(Spread(Field1("message", JStr("")), Field1("statusText", JStr(m)))) :
              m \in Messages}
    \cup {JObj(<< >>), JNull, JUndefined}

\* the failures handed to handleError: one message of every category
HandledMessages ==
    {"Failed to fetch", "Request timed out", "You are offline",
     "net::ERR_NAME_NOT_RESOLVED", "blocked by CORS policy", "401 Unauthorized",
     "403 Forbidden", "404 Not found", "429 Too many requests", "HTTP 503",
     "API token is missing", "Malformed config", "Something went wrong"}

HandledErrors == {JObj(Field1("message", JStr(m))) : m \in HandledMessages}

\* analyzeError on the handled failures, computed once
Diagnoses == [in \in HandledErrors \X {JUndefined} |-> analyzeError(in[1], in[2])] @@ << >>

\* this.analyzeError(error, context) inside handleError
Diagnosis(error, context) ==
    IF << error, context >> \in DOMAIN Diagnoses
    THEN Diagnoses[<< error, context >>]
    ELSE analyzeError(error, context)

-----------------------------------------------------------------------------
(* ErrorHandler: handleError *)

DefaultOptions ==
    [f \in {"showToast", "enableAutoOffline", "runDiagnostics"} |->
        JBool(f # "runDiagnostics")]

\* mutant of showErrorToast: no case for the medium severity
showErrorToastNoMedium(w, errorInfo) ==
    CASE errorInfo.severity \in {"critical", "high"} -> EmitToast(w, "error", errorInfo.message)
      [] errorInfo.severity = "low"                  -> EmitToast(w, "info", errorInfo.message)
      [] OTHER                                       -> w

\* showErrorToast: the toast level of each severity; none for any other
showErrorToast(w, errorInfo) ==
    CASE errorInfo.severity \in {"critical", "high"} -> EmitToast(w, "error", errorInfo.message)
      [] errorInfo.severity = "medium"               -> EmitToast(w, "warning", errorInfo.message)
      [] errorInfo.severity = "low"                  -> EmitToast(w, "info", errorInfo.message)
      [] OTHER                                       -> w

\* mutant of handleError: the enableAutoOffline option is not consulted
handleErrorAlwaysOffline(w, error, context, options, fault) ==
    LET errorInfo == Diagnosis(error, context)
        opts == Spread(DefaultOptions, SpreadFields(options))
        w1 == IF Truthy(opts["showToast"]) THEN showErrorToast(w, errorInfo) ELSE w
        w2 == IF SuggestsOffline(errorInfo) THEN setOfflineMode(w1, TRUE, fault) ELSE w1
    IN  [w |-> w2, errorInfo |-> errorInfo,
         schedule |-> Truthy(opts["runDiagnostics"]) /\ errorInfo.type = "network"]

\* mutant of handleError: the suggestion is scheduled whatever the kind
handleErrorSuggestingAlways(w, error, context, options, fault) ==
    LET errorInfo == Diagnosis(error, context)
        opts == Spread(DefaultOptions, SpreadFields(options))
        w1 == IF Truthy(opts["showToast"]) THEN showErrorToast(w, errorInfo) ELSE w
        w2 == IF Truthy(opts["enableAutoOffline"]) /\ SuggestsOffline(errorInfo)
              THEN setOfflineMode(w1, TRUE, fault) ELSE w1
    IN  [w |-> w2, errorInfo |-> errorInfo,
         schedule |-> Truthy(opts["runDiagnostics"])]

\* the synchronous body of handleError up to its setTimeout:
\* [w, errorInfo, schedule]
handleError(w, error, context, options, fault) ==
    LET errorInfo == Diagnosis(error, context)
        opts == Spread(DefaultOptions, SpreadFields(options))
        w1 == IF Truthy(opts["showToast"]) THEN showErrorToast(w, errorInfo) ELSE w
        w2 == IF Truthy(opts["enableAutoOffline"]) /\ SuggestsOffline(errorInfo)
              THEN setOfflineMode(w1, TRUE, fault) ELSE w1
    IN  [w |-> w2, errorInfo |-> errorInfo,
         schedule |-> Truthy(opts["runDiagnostics"]) /\ errorInfo.type = "network"]

-----------------------------------------------------------------------------
(* NetworkDiagnostics: the four probes *)

\* how a fetch() settles: resolved with response.ok, resolved with another
\* status, rejected by a network error, rejected by its AbortController
FetchOutcomes == {"ok", "http-error", "network-error", "abort"}

Resolved(out) == out \in {"ok", "http-error"}

\* how tokenResponse.json() settles: a body with success: true, a body with
\* success: false, the body null, a body that is no JSON (rejects)
JsonOutcomes == {"success", "no-success", "null", "throws"}

NetworkDiagnosticResult(success, message, details) ==
    [success |-> success, message |-> message, details |-> details]

\* details: { error: error.toString() }
ErrorDetails == [error |-> "error"]

\* where an async function stands: at an await, returned, or thrown
Awaiting(at, acc) == [k |-> "await", at |-> at, acc |-> acc]
Returned(r)       == [k |-> "return", result |-> r]
Thrown            == [k |-> "throw"]

\* mutant of TryCatch: the exception leaves the function
TryCatchRethrows(body, failure) == body

\* try { body } catch (error) { return failure }
TryCatch(body, failure) == IF body.k = "throw" THEN Returned(failure) ELSE body

TestEndpoints ==
    << "https://www.cloudflare.com/cdn-cgi/trace", "https://httpbin.org/get",
       "https://api.github.com" >>

\* testBasicConnectivity from its await of Promise.allSettled on: results[i]
\* is how the fetch of TestEndpoints[i] settled
testBasicConnectivity(results) ==
    LET successCount == Cardinality({i \in DOMAIN results : results[i] = "ok"})
        total        == Len(TestEndpoints)
        details      == [successCount |-> successCount, totalTests |-> total]
    IN  TryCatch(
            Returned(IF successCount = 0
                     THEN NetworkDiagnosticResult(FALSE, "cannot-reach-any-endpoint", details)
                     ELSE IF successCount < total
                     THEN NetworkDiagnosticResult(TRUE, "partial-connectivity", details)
                     ELSE NetworkDiagnosticResult(TRUE, "connectivity-ok", details)),
            NetworkDiagnosticResult(FALSE, "connectivity-test-failed", ErrorDetails))

TestDomains == << "api.cloudflare.com", "www.cloudflare.com", "httpbin.org" >>

\* the entry testDnsResolution pushes for one domain: only an AbortError
\* counts as a DNS failure
DnsDomainResult(domain, out) ==
    IF Resolved(out) THEN [domain |-> domain, success |-> TRUE, note |-> "response"]
    ELSE IF out = "abort" THEN [domain |-> domain, success |-> FALSE, note |-> "dns-timeout"]
    ELSE [domain |-> domain, success |-> TRUE, note |-> "resolved-but-connection-failed"]

\* testDnsResolution from the await of one domain's fetch on: results are
\* the entries pushed so far, out is how this fetch settled
testDnsResolution(results, out) ==
    LET results1     == Append(results, DnsDomainResult(TestDomains[Len(results) + 1], out))
        successCount == Cardinality({i \in DOMAIN results1 : results1[i].success})
        details      == [results |-> results1]
    IN  IF Len(results1) < Len(TestDomains) THEN Awaiting("fetch", results1)
        ELSE TryCatch(
            Returned(IF successCount = 0
                     THEN NetworkDiagnosticResult(FALSE, "dns-failed-completely", details)
                     ELSE IF successCount < Len(TestDomains)
                     THEN NetworkDiagnosticResult(TRUE, "partial-dns", details)
                     ELSE NetworkDiagnosticResult(TRUE, "dns-ok", details)),
            NetworkDiagnosticResult(FALSE, "dns-test-failed", ErrorDetails))

\* mutant of testCloudflareApi: the token is verified whatever the status
\* of the API endpoint
testCloudflareApiAnyStatus(at, apiToken, out) ==
    TryCatch(
        CASE at = "api" ->
                IF ~Resolved(out) THEN Thrown
                ELSE IF Truthy(apiToken) THEN Awaiting("tokenVerify", << >>)
                ELSE IF out # "ok"
                THEN Returned(NetworkDiagnosticResult(FALSE, "api-endpoint-unreachable",
                                                      [status |-> "http-error"]))
                ELSE Returned(NetworkDiagnosticResult(TRUE, "api-endpoint-reachable",
                                 [apiReachable |-> TRUE, tokenProvided |-> FALSE]))
          [] at = "tokenVerify" ->
                IF ~Resolved(out) THEN Thrown
                ELSE IF out = "ok" THEN Awaiting("json", << >>)
                ELSE Returned(NetworkDiagnosticResult(FALSE, "token-verification-failed-status",
                                 [tokenValid |-> FALSE, apiReachable |-> TRUE]))
          [] at = "json" ->
                IF out \in {"throws", "null"} THEN Thrown
                ELSE IF out = "success"
                THEN Returned(NetworkDiagnosticResult(TRUE, "api-ok-token-valid",
                                 [tokenValid |-> TRUE, apiReachable |-> TRUE]))
                ELSE Returned(NetworkDiagnosticResult(FALSE, "token-verification-failed",
                                 [tokenValid |-> FALSE, apiReachable |-> TRUE])),
        NetworkDiagnosticResult(FALSE, "api-connection-failed", ErrorDetails))

\* testCloudflareApi from one of its awaits on: at "api" the fetch of the
\* API endpoint, at "tokenVerify" the fetch of the token verification, at
\* "json" the reading of its body; out is how the awaited promise settled
testCloudflareApi(at, apiToken, out) ==
    TryCatch(
        CASE at = "api" ->
                IF ~Resolved(out) THEN Thrown
                ELSE IF out # "ok"
                THEN Returned(NetworkDiagnosticResult(FALSE, "api-endpoint-unreachable",
                                                      [status |-> "http-error"]))
                ELSE IF Truthy(apiToken) THEN Awaiting("tokenVerify", << >>)
                ELSE Returned(NetworkDiagnosticResult(TRUE, "api-endpoint-reachable",
                                 [apiReachable |-> TRUE, tokenProvided |-> FALSE]))
          [] at = "tokenVerify" ->
                IF ~Resolved(out) THEN Thrown
                ELSE IF out = "ok" THEN Awaiting("json", << >>)
                ELSE Returned(NetworkDiagnosticResult(FALSE, "token-verification-failed-status",
                                 [tokenValid |-> FALSE, apiReachable |-> TRUE]))
          [] at = "json" ->
                IF out \in {"throws", "null"} THEN Thrown
                ELSE IF out = "success"
                THEN Returned(NetworkDiagnosticResult(TRUE, "api-ok-token-valid",
                                 [tokenValid |-> TRUE, apiReachable |-> TRUE]))
                ELSE Returned(NetworkDiagnosticResult(FALSE, "token-verification-failed",
                                 [tokenValid |-> FALSE, apiReachable |-> TRUE])),
        NetworkDiagnosticResult(FALSE, "api-connection-failed", ErrorDetails))

\* testCorsSupport from the await of its OPTIONS fetch on
testCorsSupport(out) ==
    TryCatch(
        IF ~Resolved(out) THEN Thrown
        ELSE IF out = "ok"
        THEN Returned(NetworkDiagnosticResult(TRUE, "cors-ok", [status |-> "ok"]))
        ELSE Returned(NetworkDiagnosticResult(FALSE, "cors-preflight-abnormal",
                                              [status |-> "http-error"])),
        NetworkDiagnosticResult(FALSE, "cors-test-failed", ErrorDetails))

-----------------------------------------------------------------------------
(* NetworkDiagnostics: the report *)

\* the probes in the order generateDiagnosticReport passes them to Promise.all
Probes == << "basicConnectivity", "dnsResolution", "cloudflareApi", "corsSupport" >>

ProbeSet == {Probes[i] : i \in DOMAIN Probes}

\* mutant of PromiseAll: the last promise's value is not waited for
PromiseAllButLast(promises, settled, order) ==
    IF \E i \in DOMAIN promises : settled[promises[i]].k = "throw" THEN Thrown
    ELSE Returned([i \in DOMAIN promises |->
                     settled[promises[IF i = Len(promises) THEN 1 ELSE i]].result])

\* mutant of PromiseAll: the values in the order the promises settled
PromiseAllInCompletionOrder(promises, settled, order) ==
    IF \E i \in DOMAIN promises : settled[promises[i]].k = "throw" THEN Thrown
    ELSE Returned([i \in DOMAIN promises |-> settled[order[i]].result])

\* Promise.all once it settles: rejected when a promise rejected, else the
\* values in the order of the promises passed, whatever order they settled in
PromiseAll(promises, settled, order) ==
    IF \E i \in DOMAIN promises : settled[promises[i]].k = "throw" THEN Thrown
    ELSE Returned([i \in DOMAIN promises |-> settled[promises[i]].result])

\* mutant of OverallStatus: only the connectivity probe decides a failure
OverallStatusByConnectivity(basicConnectivity, cloudflareApi, issues) ==
    IF basicConnectivity.success
    THEN (IF Len(issues) = 0 THEN "healthy" ELSE "degraded")
    ELSE "failed"

\* mutant of OverallStatus: a failing probe of any kind degrades the report
OverallStatusDegraded(basicConnectivity, cloudflareApi, issues) ==
    IF issues = << >> THEN "healthy"
    ELSE IF ~basicConnectivity.success /\ ~cloudflareApi.success THEN "failed"
    ELSE "degraded"

\* overallStatus
OverallStatus(basicConnectivity, cloudflareApi, issues) ==
    IF basicConnectivity.success /\ cloudflareApi.success
    THEN (IF Len(issues) = 0 THEN "healthy" ELSE "degraded")
    ELSE "failed"

\* issues.push / recommendations.push of one check
PushIf(list, failed, entry) == IF failed THEN Append(list, entry) ELSE list

\* generateDiagnosticReport from its await of Promise.all on: all is how
\* Promise.all settled
generateDiagnosticReport(apiToken, all) ==
    IF all.k = "throw" THEN Thrown
    ELSE
    LET basicConnectivity == all.result[1]
        dnsResolution     == all.result[2]
        cloudflareApi     == all.result[3]
        corsSupport       == all.result[4]
        issues ==
            PushIf(PushIf(PushIf(PushIf(<< >>,
                ~basicConnectivity.success, "basic-network-connection-failed"),
                ~dnsResolution.success, "dns-resolution-failed"),
                ~cloudflareApi.success, "cloudflare-api-connection-failed"),
                ~corsSupport.success, "cors-support-abnormal")
        recommendations ==
            PushIf(PushIf(PushIf(PushIf(<< >>,
                ~basicConnectivity.success, "check-network-and-firewall"),
                ~dnsResolution.success, "check-dns-settings"),
                ~cloudflareApi.success,
                    IF Truthy(apiToken) THEN "check-api-token-validity-and-permissions"
                    ELSE "configure-a-valid-api-token"),
                ~corsSupport.success, "check-browser-cors-settings-or-use-a-proxy")
    IN  Returned([basicConnectivity |-> basicConnectivity,
                  dnsResolution     |-> dnsResolution,
                  cloudflareApi     |-> cloudflareApi,
                  corsSupport       |-> corsSupport,
                  overall |-> [status |-> OverallStatus(basicConnectivity, cloudflareApi, issues),
                               issues |-> issues,
                               recommendations |-> recommendations]])

\* no report requested
DiagIdle ==
    [phase |-> "idle", apiToken |-> JUndefined, probes |-> << >>, order |-> << >>,
     raised |-> {}]

-----------------------------------------------------------------------------
(* Documents and components at rest *)

\* no fetch pending, no timeout armed
NetIdle == [requests |-> << >>, timeouts |-> << >>]

\* nothing downloaded, nothing on the clipboard
NoDocuments == [file |-> Absent, clipboard |-> Absent]

\* the NetworkStatus component before it is mounted
NetworkStatusUnmounted ==
    [mounted |-> FALSE, isOnline |-> TRUE, showStatus |-> FALSE, hideTimers |-> << >>,
     lastEvent |-> "none"]

\* the WorkerManagement page before it is mounted
WorkerPageUnmounted ==
    [mounted |-> FALSE, isLoading |-> FALSE, isUpdating |-> FALSE, isTesting |-> FALSE,
     workerStatus |-> "unknown", inFlight |-> << >>, testTimers |-> << >>]

-----------------------------------------------------------------------------
(* Bounds and inputs *)

MaxDays   == 1   \* the clock of the cache runs over MaxDays cache lifetimes
MaxFine   == 1   \* and MaxFine milliseconds past each
MaxTicks  == 2   \* the clock of the handler runs over MaxTicks timer delays
MaxTimers == 2   \* pending diagnostics suggestions

SuggestDelay == 2000

CacheClock   == {a * CACHE_DURATION + b : a \in 0..MaxDays, b \in 0..MaxFine}
\* in steps of half a delay, so that a timer can be pending and not yet due
HandlerClock == {n * (SuggestDelay \div 2) : n \in 0..(2 * MaxTicks)}

\* the two names the application caches under
CacheNames == {"version-info", "worker-code"}

\* an object one of whose fields holds undefined
VersionObject ==
    JObj([f \in {"version", "downloadUrl"} |->
            IF f = "version" THEN JStr("1.0.0") ELSE JUndefined])

CacheValues == {JStr("code"), JNull, JUndefined, JNaN, VersionObject}

\* values JSON.parse(JSON.stringify(v)) gives back unchanged
JsonSafe(v) == ToJson(JObj([f \in {"data"} |-> v])) = JObj([f \in {"data"} |-> v])

NoPut == [data |-> JUndefined, at |-> -1]

\* blobs a previous session or an older version may have left
StoredBlobs ==
    {JSONstringify(JObj(o)) :
        o \in {[f \in {"enabled"} |-> JBool(TRUE)],
               [f \in {"enabled"} |-> JBool(FALSE)],
               [f \in {"enabled", "lastSyncTime"} |->
                    IF f = "enabled" THEN JBool(TRUE) ELSE JNum(1)],
               [f \in {"lastSyncTime"} |-> JNum(1)]}}
    \cup {CorruptText}

StoreOf(blob, entries) ==
    [k \in (IF blob = Absent THEN {} ELSE {STORAGE_KEY})
           \cup {CacheKey(n) : n \in DOMAIN entries} |->
        IF k = STORAGE_KEY THEN blob
        ELSE entries[CHOOSE n \in DOMAIN entries : CacheKey(n) = k]]

\* an entry cached at time 0
OldEntry ==
    JSONstringify(JObj([f \in {"data", "timestamp"} |->
                           IF f = "data" THEN JStr("code") ELSE JNum(0)]))

\* strings an earlier session, another script or the user may have left
\* under a cache key: no JSON, empty, the JSON text null, an entry
StoredEntries == {CorruptText, EmptyText, JSONstringify(JNull), OldEntry}

-----------------------------------------------------------------------------
(* Actions *)

Commit(w) ==
    /\ offlineConfig' = w.cfg
    /\ localStorage' = w.store
    /\ toasts' = w.toasts
    /\ calls' = w.calls

\* new OfflineManager() on a page load: defaults, then loadOfflineConfig;
\* pending timers of the previous page are gone
Construct ==
    /\ offlineConfig' = loadOfflineConfig(DefaultOfflineConfig, localStorage, storageFault)
    /\ timers' = << >>
    /\ toasts' = << >>
    /\ calls' = << >>
    /\ op' = [name |-> "construct"]
    /\ ret' = JUndefined
    /\ UNCHANGED << net, documents, networkStatus, workerPage, localStorage, storageFault, onLine, now, putLog, enabledBy >>
    /\ diag' = DiagIdle

CallSetOfflineMode(enabled) ==
    /\ Commit(setOfflineMode(World, enabled, storageFault))
    /\ op' = [name |-> "setOfflineMode", enabled |-> enabled]
    /\ ret' = JUndefined
    /\ enabledBy' = IF enabled THEN "operator" ELSE enabledBy
    /\ UNCHANGED << net, documents, networkStatus, workerPage, diag, storageFault, onLine, now, timers, putLog >>

CallIsOfflineMode ==
    /\ ret' = isOfflineMode(offlineConfig, onLine)
    /\ op' = [name |-> "isOfflineMode"]
    /\ toasts' = << >>
    /\ calls' = << >>
    /\ UNCHANGED << net, documents, networkStatus, workerPage, diag, localStorage, storageFault, offlineConfig, onLine, now, timers, putLog, enabledBy >>

\* connectivity returns: navigator.onLine becomes true, 'online' is dispatched
OnlineEvent ==
    /\ ~onLine
    /\ onLine' = TRUE
    /\ Commit(onOnline(World, storageFault))
    /\ op' = [name |-> "online"]
    /\ ret' = JUndefined
    /\ UNCHANGED << net, documents, networkStatus, workerPage, diag, storageFault, now, timers, putLog, enabledBy >>

\* connectivity is lost: navigator.onLine becomes false, 'offline' is dispatched
OfflineEvent ==
    /\ onLine
    /\ onLine' = FALSE
    /\ Commit(onOffline(World, storageFault))
    /\ op' = [name |-> "offline"]
    /\ ret' = JUndefined
    /\ enabledBy' = "connectivity"
    /\ UNCHANGED << net, documents, networkStatus, workerPage, diag, storageFault, now, timers, putLog >>

CallHandleError(error, context, options) ==
    LET r == handleError(World, error, context, options, storageFault)
    IN  /\ r.schedule => Len(timers) < MaxTimers
        /\ Commit(r.w)
        /\ timers' = IF r.schedule THEN Append(timers, now + SuggestDelay) ELSE timers
        /\ op' = [name |-> "handleError", options |-> options]
        /\ ret' = r.errorInfo
        /\ enabledBy' = IF r.w.calls # << >> THEN "errorHandler" ELSE enabledBy
        /\ UNCHANGED << net, documents, networkStatus, workerPage, diag, storageFault, onLine, now, putLog >>

\* the setTimeout callback of handleError: suggestNetworkDiagnostics
TimerFire ==
    /\ timers # << >>
    /\ Head(timers) <= now
    /\ timers' = Tail(timers)
    /\ toasts' = << Toast("info", "suggest-running-network-diagnostics") >>
    /\ calls' = << >>
    /\ op' = [name |-> "timer"]
    /\ ret' = JUndefined
    /\ UNCHANGED << net, documents, networkStatus, workerPage, diag, localStorage, storageFault, offlineConfig, onLine, now, putLog, enabledBy >>

\* time passes
Tick(d, clock) ==
    /\ now + d \in clock
    /\ now' = now + d
    /\ toasts' = << >>
    /\ calls' = << >>
    /\ op' = [name |-> "tick"]
    /\ ret' = JUndefined
    /\ UNCHANGED << net, documents, networkStatus, workerPage, diag, localStorage, storageFault, offlineConfig, onLine, timers, putLog, enabledBy >>

CallCacheData(key, data) ==
    /\ localStorage' = cacheData(localStorage, key, data, now, storageFault)
    /\ putLog' = [putLog EXCEPT ![key] = [data |-> data, at |-> now]]
    /\ UNCHANGED enabledBy
    /\ op' = [name |-> "cacheData", key |-> key]
    /\ ret' = JUndefined
    /\ toasts' = << >>
    /\ calls' = << >>
    /\ UNCHANGED << net, documents, networkStatus, workerPage, diag, storageFault, offlineConfig, onLine, now, timers >>

CallGetCachedData(key) ==
    LET r == getCachedData(localStorage, key, now, storageFault)
    IN  /\ localStorage' = r.store
        /\ ret' = r.ret
        /\ op' = [name |-> "getCachedData", key |-> key]
        /\ toasts' = << >>
        /\ calls' = << >>
        /\ UNCHANGED << net, documents, networkStatus, workerPage, diag, storageFault, offlineConfig, onLine, now, timers, putLog, enabledBy >>

\* the hourly setInterval of the module, or a direct call
CallCleanExpiredCache ==
    /\ localStorage' = cleanExpiredCache(localStorage, now, storageFault)
    /\ op' = [name |-> "cleanExpiredCache"]
    /\ ret' = JUndefined
    /\ toasts' = << >>
    /\ calls' = << >>
    /\ UNCHANGED << net, documents, networkStatus, workerPage, diag, storageFault, offlineConfig, onLine, now, timers, putLog, enabledBy >>

CallGetCacheStats ==
    /\ ret' = getCacheStats(localStorage, now, storageFault)
    /\ op' = [name |-> "getCacheStats"]
    /\ toasts' = << >>
    /\ calls' = << >>
    /\ UNCHANGED << net, documents, networkStatus, workerPage, diag, localStorage, storageFault, offlineConfig, onLine, now, timers, putLog, enabledBy >>

\* the environment: the store fills up, access to it is denied, or it recovers
StorageChanges(fault) ==
    /\ storageFault # fault
    /\ storageFault' = fault
    /\ op' = [name |-> "storage"]
    /\ ret' = JUndefined
    /\ toasts' = << >>
    /\ calls' = << >>
    /\ UNCHANGED << net, documents, networkStatus, workerPage, diag, localStorage, offlineConfig, onLine, now, timers, putLog, enabledBy >>

\* generateDiagnosticReport(apiToken) up to its await of Promise.all: each
\* of the four probes has run to its first await
CallGenerateDiagnosticReport(apiToken) ==
    /\ diag.phase # "running"
    /\ diag' = [phase    |-> "running",
                apiToken |-> apiToken,
                probes   |-> [p \in ProbeSet |->
                                CASE p = "basicConnectivity" -> Awaiting("allSettled", << >>)
                                  [] p = "cloudflareApi"     -> Awaiting("api", << >>)
                                  [] OTHER                   -> Awaiting("fetch", << >>)],
                order    |-> << >>,
                raised   |-> {}]
    /\ op' = [name |-> "generateDiagnosticReport", apiToken |-> apiToken]
    /\ ret' = JUndefined
    /\ toasts' = << >>
    /\ calls' = << >>
    /\ UNCHANGED << net, documents, networkStatus, workerPage, localStorage, storageFault, offlineConfig, onLine, now, timers, putLog, enabledBy >>

\* the awaited promise of probe p settles and p runs on to c: its next
\* await, its return or its throw; rejected tells whether a call p had made
\* was rejected (history: diag.raised, and diag.order, the order of completion)
Advance(p, c, rejected) ==
    /\ diag.phase = "running"
    /\ diag.probes[p].k = "await"
    /\ diag' = [diag EXCEPT !.probes[p] = c,
                            !.order = IF c.k = "await" THEN @ ELSE Append(@, p),
                            !.raised = IF rejected THEN @ \cup {p} ELSE @]
    /\ op' = [name |-> "probe", probe |-> p]
    /\ ret' = JUndefined
    /\ toasts' = << >>
    /\ calls' = << >>
    /\ UNCHANGED << net, documents, networkStatus, workerPage, localStorage, storageFault, offlineConfig, onLine, now, timers, putLog, enabledBy >>

SettleBasicConnectivity(results) ==
    Advance("basicConnectivity", testBasicConnectivity(results),
            \E i \in DOMAIN results : ~Resolved(results[i]))

SettleDnsResolution(out) ==
    /\ diag.phase = "running"
    /\ Advance("dnsResolution", testDnsResolution(diag.probes["dnsResolution"].acc, out),
               ~Resolved(out))

SettleCloudflareApi(out) ==
    /\ diag.phase = "running"
    /\ diag.probes["cloudflareApi"].k = "await"
    /\ IF diag.probes["cloudflareApi"].at = "json"
       THEN out \in JsonOutcomes ELSE out \in FetchOutcomes
    /\ Advance("cloudflareApi",
               testCloudflareApi(diag.probes["cloudflareApi"].at, diag.apiToken, out),
               out \in {"network-error", "abort", "throws", "null"})

SettleCorsSupport(out) ==
    Advance("corsSupport", testCorsSupport(out), ~Resolved(out))

\* Promise.all settles (all four fulfilled, or one rejected) and
\* generateDiagnosticReport runs to its end
SettleReport ==
    /\ diag.phase = "running"
    /\ \/ \A p \in ProbeSet : diag.probes[p].k = "return"
       \/ \E p \in ProbeSet : diag.probes[p].k = "throw"
    /\ LET r == generateDiagnosticReport(diag.apiToken,
                                         PromiseAll(Probes, diag.probes, diag.order))
       IN  ret' = IF r.k = "throw" THEN [t |-> "rejected"] ELSE r.result
    /\ diag' = [diag EXCEPT !.phase = "done"]
    /\ op' = [name |-> "diagnosticReport", apiToken |-> diag.apiToken]
    /\ toasts' = << >>
    /\ calls' = << >>
    /\ UNCHANGED << net, documents, networkStatus, workerPage, localStorage, storageFault, offlineConfig, onLine, now, timers, putLog, enabledBy >>

-----------------------------------------------------------------------------
(* The cache store *)

InitCommon ==
    /\ storageFault = "none"
    /\ offlineConfig = loadOfflineConfig(DefaultOfflineConfig, localStorage, storageFault)
    /\ now = 0
    /\ timers = << >>
    /\ toasts = << >>
    /\ calls = << >>
    /\ op = [name |-> "construct"]
    /\ ret = JUndefined
    /\ putLog = [n \in CacheNames |-> NoPut]
    /\ enabledBy = "nobody"
    /\ diag = DiagIdle
    /\ net = NetIdle
    /\ documents = NoDocuments
    /\ networkStatus = NetworkStatusUnmounted
    /\ workerPage = WorkerPageUnmounted

InitCache ==
    /\ \E blob \in {Absent, JSONstringify(JObj(DefaultOfflineConfig))} :
       \E names \in SUBSET CacheNames :
       \E entries \in [names -> StoredEntries] :
           localStorage = StoreOf(blob, entries)
    /\ onLine = TRUE
    /\ InitCommon

NextCache ==
    \/ \E key \in CacheNames : \E data \in CacheValues : CallCacheData(key, data)
    \/ \E key \in CacheNames : CallGetCachedData(key)
    \/ CallCleanExpiredCache
    \/ CallGetCacheStats
    \/ \E d \in {1, CACHE_DURATION} : Tick(d, CacheClock)

SpecCache == InitCache /\ [][NextCache]_vars

-----------------------------------------------------------------------------
(* C1: cache round trip and expiry *)

\* the cache names stats() counts
CountedNames == {n \in CacheNames : CacheKey(n) \in DOMAIN localStorage}

\* what C1 asks of a getCachedData(key) that follows a cacheData(key, v) at time at
GetAfterPut(key, v, at) ==
    IF now - at <= CACHE_DURATION
    THEN ret = v
    ELSE /\ ret = JNull
         /\ CacheKey(key) \notin DOMAIN localStorage
         /\ getCacheStats(localStorage, now, storageFault).totalItems
                = Cardinality(CountedNames \ {key})

\* C1 as claimed: for every key k and every value v, getCachedData(k) after
\* cacheData(k, v) returns v while now - storedAt <= CACHE_DURATION, and
\* once it is older returns null, removes cache-k, and stats() no longer
\* counts it.
C1_AnyValue ==
    (op.name = "getCachedData" /\ putLog[op.key] # NoPut)
        => GetAfterPut(op.key, putLog[op.key].data, putLog[op.key].at)

\* C1 as amended: the same for every value v that JSON serialization
\* preserves (JSON.parse(JSON.stringify(v)) equals v); the expiry half holds
\* for every value.
C1_JsonValue ==
    (op.name = "getCachedData" /\ putLog[op.key] # NoPut
        /\ (now - putLog[op.key].at <= CACHE_DURATION => JsonSafe(putLog[op.key].data)))
        => GetAfterPut(op.key, putLog[op.key].data, putLog[op.key].at)

\* a value is read back exactly CACHE_DURATION after it was cached
C1_Witness ==
    /\ op.name = "getCachedData"
    /\ putLog[op.key] # NoPut
    /\ now - putLog[op.key].at = CACHE_DURATION
    /\ ret = JStr("code")

\* an expired entry was evicted by a read
C1_WitnessExpired ==
    /\ op.name = "getCachedData"
    /\ putLog[op.key] # NoPut
    /\ now - putLog[op.key].at > CACHE_DURATION
    /\ putLog[op.key].at > 0
    /\ ret = JNull

-----------------------------------------------------------------------------
(* The classifier as a function of its input *)

CallAnalyzeError ==
    /\ op.name = "input"
    /\ ret' = analyzeError(op.error, op.context)
    /\ op' = [op EXCEPT !.name = "analyzeError"]
    /\ UNCHANGED << net, documents, networkStatus, workerPage, diag, localStorage, storageFault, offlineConfig, onLine, now, timers,
                    toasts, calls, putLog, enabledBy >>

InitIdle ==
    /\ localStorage = << >>
    /\ storageFault = "none"
    /\ offlineConfig = DefaultOfflineConfig
    /\ onLine = TRUE
    /\ now = 0
    /\ timers = << >>
    /\ toasts = << >>
    /\ calls = << >>
    /\ ret = JUndefined
    /\ putLog = [n \in CacheNames |-> NoPut]
    /\ enabledBy = "nobody"
    /\ diag = DiagIdle
    /\ net = NetIdle
    /\ documents = NoDocuments
    /\ networkStatus = NetworkStatusUnmounted
    /\ workerPage = WorkerPageUnmounted

InitClassify ==
    /\ InitIdle
    /\ \E error \in Errors : \E context \in Contexts :
           op = [name |-> "input", error |-> error, context |-> context]

NextClassify == CallAnalyzeError

SpecClassify == InitClassify /\ [][NextClassify]_vars

-----------------------------------------------------------------------------
(* The retry policy as a function of its inputs *)

MaxRetryCount == 11   \* retry counts 0..MaxRetryCount
MaxMaxRetries == 4    \* maxRetries arguments 0..MaxMaxRetries

Kinds == {"network", "api", "auth", "config", "timeout", "cors", "unknown"}

\* diagnoses of every kind with either retry flag
RetryInfos ==
    {Info(type, "medium", "summary", "", << >>, canRetry) :
        type \in Kinds, canRetry \in BOOLEAN}

OptionalNumbers(S) == {JNum(n) : n \in S} \cup {JUndefined}

CallShouldRetry(errorInfo, retryCount, maxRetries) ==
    /\ ret' = JBool(shouldRetry(errorInfo, retryCount, maxRetries))
    /\ op' = [name |-> "shouldRetry", errorInfo |-> errorInfo,
              retryCount |-> retryCount, maxRetries |-> maxRetries]
    /\ UNCHANGED << net, documents, networkStatus, workerPage, diag, localStorage, storageFault, offlineConfig, onLine, now, timers,
                    toasts, calls, putLog, enabledBy >>

CallCalculateRetryDelay(retryCount, baseDelay) ==
    /\ ret' = JNum(calculateRetryDelay(retryCount, baseDelay))
    /\ op' = [name |-> "calculateRetryDelay", retryCount |-> retryCount,
              baseDelay |-> baseDelay]
    /\ UNCHANGED << net, documents, networkStatus, workerPage, diag, localStorage, storageFault, offlineConfig, onLine, now, timers,
                    toasts, calls, putLog, enabledBy >>

InitRetry == InitIdle /\ op = [name |-> "construct"]

NextRetry ==
    \/ \E errorInfo \in RetryInfos : \E retryCount \in 0..MaxRetryCount :
       \E maxRetries \in OptionalNumbers(0..MaxMaxRetries) :
           CallShouldRetry(errorInfo, retryCount, maxRetries)
    \/ \E retryCount \in 0..MaxRetryCount :
       \E baseDelay \in OptionalNumbers({0, 1, 500, 1000, 20000}) :
           CallCalculateRetryDelay(retryCount, baseDelay)

SpecRetry == InitRetry /\ [][NextRetry]_vars

-----------------------------------------------------------------------------
(* The diagnostics on their own *)

ApiTokens == {JUndefined, JStr("token")}

InitProbe ==
    /\ InitIdle
    /\ op = [name |-> "construct"]

NextProbe ==
    \/ \E apiToken \in ApiTokens : CallGenerateDiagnosticReport(apiToken)
    \/ \E results \in [DOMAIN TestEndpoints -> FetchOutcomes] : SettleBasicConnectivity(results)
    \/ \E out \in FetchOutcomes : SettleDnsResolution(out)
    \/ \E out \in FetchOutcomes \cup JsonOutcomes : SettleCloudflareApi(out)
    \/ \E out \in FetchOutcomes : SettleCorsSupport(out)
    \/ SettleReport

SpecProbe == InitProbe /\ [][NextProbe]_vars

-----------------------------------------------------------------------------
(* The mode controller and the error handler *)

\* options of handleError: none, or an object that leaves fields out
HandleOptions ==
    {JUndefined,
     JObj(<< >>),
     JObj(Field1("enableAutoOffline", JBool(FALSE))),
     JObj(Field1("enableAutoOffline", JUndefined)),
     JObj(Field1("showToast", JBool(FALSE))),
     JObj(Spread(Field1("showToast", JBool(FALSE)), Field1("enableAutoOffline", JBool(TRUE))))}

Init ==
    /\ \E blob \in StoredBlobs \cup {Absent} :
       \E entries \in {<< >>, [n \in {"worker-code"} |-> OldEntry]} :
           localStorage = StoreOf(blob, entries)
    /\ onLine \in BOOLEAN
    /\ InitCommon

Next ==
    \/ Construct
    \/ \E enabled \in BOOLEAN : CallSetOfflineMode(enabled)
    \/ CallIsOfflineMode
    \/ OnlineEvent
    \/ OfflineEvent
    \/ \E error \in HandledErrors : \E options \in HandleOptions :
           CallHandleError(error, JUndefined, options)

Spec == Init /\ [][Next]_vars

-----------------------------------------------------------------------------
(* C2, C3: the classifier *)

\* the ordered category list of the classifier
CategoryOrder ==
    << "NETWORK_FAILED", "NETWORK_TIMEOUT", "NETWORK_OFFLINE", "DNS_FAILED", "CORS_ERROR",
       "API_UNAUTHORIZED", "API_FORBIDDEN", "API_NOT_FOUND", "API_RATE_LIMIT",
       "API_SERVER_ERROR", "CONFIG_MISSING", "CONFIG_INVALID" >>

\* the first category of the list whose pattern the text matches
FirstMatch(text) ==
    LET hits == {i \in 1..Len(CategoryOrder) : Test(ERROR_PATTERNS[CategoryOrder[i]], text)}
    IN  IF hits = {} THEN "UNKNOWN" ELSE CategoryOrder[Min(hits)]

\* the summary that names each category in a diagnosis
CategorySummary ==
    [NETWORK_FAILED   |-> "network-connection-failed",
     NETWORK_TIMEOUT  |-> "request-timed-out",
     NETWORK_OFFLINE  |-> "device-is-offline",
     DNS_FAILED       |-> "dns-resolution-failed",
     CORS_ERROR       |-> "cross-origin-request-blocked",
     API_UNAUTHORIZED |-> "api-token-invalid-or-expired",
     API_FORBIDDEN    |-> "insufficient-permissions",
     API_NOT_FOUND    |-> "resource-not-found",
     API_RATE_LIMIT   |-> "api-rate-limit-exceeded",
     API_SERVER_ERROR |-> "cloudflare-server-error",
     CONFIG_MISSING   |-> "configuration-missing",
     CONFIG_INVALID   |-> "configuration-format-invalid",
     UNKNOWN          |-> "unknown-error"]

\* C2: analyzeError returns the category of the first pattern, in the order
\* network-failed, timeout, offline, dns, cors, 401, 403, 404, 429, 5xx,
\* config-missing, config-invalid, that the text of message, stack and
\* context matches (unknown when none does); so an input matching the
\* network-failed pattern yields kind network, retryable, offline suggested,
\* whatever later patterns it matches.
C2_FirstMatchWins ==
    op.name = "analyzeError" =>
        LET text == Lower(errorString(op.error, op.context))
        IN  /\ ret.message = CategorySummary[FirstMatch(text)]
            /\ (Occurrences(text, "failed to fetch") # {}
                    => ret.type = "network" /\ ret.canRetry /\ SuggestsOffline(ret))

\* an input that matches the network-failed pattern and the later offline pattern
C2_Witness ==
    /\ op.name = "analyzeError"
    /\ op.error = JStr("offline: Failed to fetch")
    /\ ret.message = "network-connection-failed"

\* the category table: kind, severity, retryable, offline suggested
CategoryTable ==
    [NETWORK_FAILED   |-> << "network", "high", TRUE, TRUE >>,
     NETWORK_TIMEOUT  |-> << "timeout", "medium", TRUE, TRUE >>,
     NETWORK_OFFLINE  |-> << "network", "high", FALSE, TRUE >>,
     DNS_FAILED       |-> << "network", "high", TRUE, FALSE >>,
     CORS_ERROR       |-> << "cors", "medium", TRUE, FALSE >>,
     API_UNAUTHORIZED |-> << "auth", "high", FALSE, FALSE >>,
     API_FORBIDDEN    |-> << "auth", "high", FALSE, FALSE >>,
     API_NOT_FOUND    |-> << "api", "medium", FALSE, FALSE >>,
     API_RATE_LIMIT   |-> << "api", "medium", TRUE, TRUE >>,
     API_SERVER_ERROR |-> << "api", "high", TRUE, TRUE >>,
     CONFIG_MISSING   |-> << "config", "critical", FALSE, FALSE >>,
     CONFIG_INVALID   |-> << "config", "high", FALSE, FALSE >>,
     UNKNOWN          |-> << "unknown", "medium", TRUE, FALSE >>]

\* the category a diagnosis belongs to
CategoryOf(info) == CHOOSE c \in DOMAIN CategorySummary : CategorySummary[c] = info.message

\* C3: the diagnosis of every category carries the (kind, severity,
\* retryable, suggestOfflineMode) tuple of the category table; the error
\* {message: "401 Unauthorized"} yields kind auth, severity high, not retryable.
C3_CategoryTable ==
    op.name = "analyzeError" =>
        /\ ret.message \in {CategorySummary[c] : c \in DOMAIN CategorySummary}
        /\ << ret.type, ret.severity, ret.canRetry, SuggestsOffline(ret) >>
               = CategoryTable[CategoryOf(ret)]
        /\ (op.error = JObj(Field1("message", JStr("401 Unauthorized")))
                /\ op.context = JUndefined
              => ret.type = "auth" /\ ret.severity = "high" /\ ~ret.canRetry)

\* the 401 scenario
C3_Witness ==
    /\ op.name = "analyzeError"
    /\ op.error = JObj(Field1("message", JStr("401 Unauthorized")))
    /\ op.context = JUndefined
    /\ ret.message = "api-token-invalid-or-expired"

-----------------------------------------------------------------------------
(* C4, C5: the retry policy *)

\* C4: shouldRetry is true iff the diagnosis is retryable, retryCount is
\* below maxRetries (3 when not given) and the kind is neither auth nor
\* config; so it is false for auth and config whatever the flag and the
\* count, and false for every diagnosis once retryCount >= maxRetries.
C4_ShouldRetry ==
    op.name = "shouldRetry" =>
        LET limit == IF op.maxRetries = JUndefined THEN 3 ELSE op.maxRetries.n
        IN  /\ ret = JBool(/\ op.errorInfo.canRetry
                           /\ op.retryCount < limit
                           /\ op.errorInfo.type \notin {"auth", "config"})
            /\ (op.errorInfo.type \in {"auth", "config"} => ret = JBool(FALSE))
            /\ (op.retryCount >= limit => ret = JBool(FALSE))

\* a retryable diagnosis of kind network is refused its fourth retry
C4_Witness ==
    /\ op.name = "shouldRetry"
    /\ op.errorInfo.type = "network"
    /\ op.errorInfo.canRetry
    /\ op.maxRetries = JUndefined
    /\ op.retryCount = 3
    /\ ret = JBool(FALSE)

\* C5: calculateRetryDelay is min(baseMs * 2^retryCount, 10000), baseMs 1000
\* when not given: 1000 for 0, 8000 for 3, 10000 for 10; never above 10000
\* and non-decreasing in retryCount.
C5_RetryDelay ==
    op.name = "calculateRetryDelay" =>
        LET base   == IF op.baseDelay = JUndefined THEN 1000 ELSE op.baseDelay.n
            expect == IF base * (2 ^ op.retryCount) < 10000
                      THEN base * (2 ^ op.retryCount) ELSE 10000
        IN  /\ ret = JNum(expect)
            /\ ret.n <= 10000
            /\ ret.n <= calculateRetryDelay(op.retryCount + 1, op.baseDelay)
            /\ (op.baseDelay = JUndefined /\ op.retryCount = 0 => ret.n = 1000)
            /\ (op.baseDelay = JUndefined /\ op.retryCount = 3 => ret.n = 8000)
            /\ (op.baseDelay = JUndefined /\ op.retryCount = 10 => ret.n = 10000)

\* the capped delay of the tenth retry
C5_Witness ==
    /\ op.name = "calculateRetryDelay"
    /\ op.baseDelay = JUndefined
    /\ op.retryCount = 10
    /\ ret = JNum(10000)

-----------------------------------------------------------------------------
(* C6 - C10: the mode controller and handleError *)

\* the flag a load of the persisted blob yields
PersistedEnabled(store) ==
    Truthy(loadOfflineConfig(DefaultOfflineConfig, store, "none")["enabled"])

\* the fields of the persisted blob
PersistedFields(store) ==
    IF STORAGE_KEY \in DOMAIN store /\ ~ParseThrows(store[STORAGE_KEY])
    THEN SpreadFields(JSONparse(store[STORAGE_KEY]))
    ELSE << >>

\* C6: isOfflineMode returns offlineEnabled OR no connectivity, the flag
\* being the in-memory one and the persisted one alike, and changes no state.
C6_EffectiveOffline ==
    [][op'.name = "isOfflineMode" =>
          /\ ret' = JBool(Truthy(offlineConfig["enabled"]) \/ ~onLine)
          /\ ret' = JBool(PersistedEnabled(localStorage) \/ ~onLine)
          /\ UNCHANGED << localStorage, offlineConfig, onLine, timers >>]_vars

\* offline by the connectivity signal alone
C6_Witness ==
    /\ op.name = "isOfflineMode"
    /\ ~Truthy(offlineConfig["enabled"])
    /\ ~onLine
    /\ ret = JBool(TRUE)

\* C7: after setOfflineMode(b) the in-memory flag and the persisted blob
\* both have enabled = b, every other field of the ModeState is kept in
\* memory and in the blob, and setOfflineMode(true) on an enabled mode
\* leaves memory and blob as they are, isOfflineMode staying true.
C7_SetOffline ==
    [][op'.name = "setOfflineMode" =>
          /\ offlineConfig'["enabled"] = JBool(op'.enabled)
          /\ PersistedFields(localStorage') = offlineConfig'
          /\ \A f \in (DOMAIN offlineConfig \cup DOMAIN PersistedFields(localStorage))
                        \ {"enabled"} :
                /\ f \in DOMAIN offlineConfig'
                /\ f \in DOMAIN offlineConfig => offlineConfig'[f] = offlineConfig[f]
                /\ f \in DOMAIN PersistedFields(localStorage)
                     => PersistedFields(localStorage')[f] = PersistedFields(localStorage)[f]
          /\ (op'.enabled /\ Truthy(offlineConfig["enabled"])
                => /\ UNCHANGED << localStorage, offlineConfig >>
                   /\ Truthy(isOfflineMode(offlineConfig', onLine')))]_vars

\* the flag is cleared in a blob that carries another field
C7_Witness ==
    /\ op.name = "setOfflineMode"
    /\ ~op.enabled
    /\ "lastSyncTime" \in DOMAIN PersistedFields(localStorage)
    /\ PersistedFields(localStorage)["enabled"] = JBool(FALSE)

\* C8: after an 'offline' event offlineEnabled is true in memory and
\* persisted; after an 'online' event it is false in memory and persisted,
\* whoever enabled it.
C8_ConnectivityEvents ==
    /\ op.name = "offline"
          => /\ offlineConfig["enabled"] = JBool(TRUE)
             /\ PersistedEnabled(localStorage)
    /\ op.name = "online"
          => /\ offlineConfig["enabled"] = JBool(FALSE)
             /\ ~PersistedEnabled(localStorage)

\* an 'online' event clears a mode the operator enabled
C8_Witness ==
    /\ op.name = "online"
    /\ enabledBy = "operator"
    /\ calls = << FALSE >>

\* the enableAutoOffline option: on unless the options object carries the field
AutoOffline(options) ==
    IF options.t = "object" /\ "enableAutoOffline" \in DOMAIN options.o
    THEN Truthy(options.o["enableAutoOffline"])
    ELSE TRUE

\* C9: handleError calls setOfflineMode(true), within the call, iff the
\* diagnosis suggests offline mode and enableAutoOffline is on; otherwise
\* it leaves the ModeState in memory and in the store unchanged.
C9_AutoOffline ==
    [][op'.name = "handleError" =>
          LET switch == SuggestsOffline(ret') /\ AutoOffline(op'.options)
          IN  /\ calls' = IF switch THEN << TRUE >> ELSE << >>
              /\ switch => /\ offlineConfig'["enabled"] = JBool(TRUE)
                           /\ PersistedEnabled(localStorage')
              /\ ~switch => UNCHANGED << offlineConfig, localStorage >>]_vars

\* a failure that suggests offline mode switches it on
C9_Witness ==
    /\ op.name = "handleError"
    /\ op.options = JUndefined
    /\ calls = << TRUE >>
    /\ enabledBy = "errorHandler"
    /\ offlineConfig["enabled"] = JBool(TRUE)

\* C10 as claimed: handleError with default options produces exactly one
\* notification, whatever the category.
C10_OneNotification ==
    (op.name = "handleError" /\ op.options = JUndefined) => Len(toasts) = 1

\* C10 as amended: handleError with default options produces exactly one
\* notification of the failure, styled by its severity and carrying its
\* summary; when the diagnosis suggests offline mode, setOfflineMode(true)
\* adds a second one ("offline mode enabled"), and nothing else is emitted.
C10_Notifications ==
    (op.name = "handleError" /\ op.options = JUndefined) =>
        /\ Len(toasts) = IF SuggestsOffline(ret) THEN 2 ELSE 1
        /\ toasts[1] = Toast(IF ret.severity \in {"critical", "high"} THEN "error"
                             ELSE "warning", ret.message)
        /\ SuggestsOffline(ret) => toasts[2] = Toast("info", "offline-mode-enabled")

\* a medium-severity failure that suggests offline mode: two notifications
C10_Witness ==
    /\ op.name = "handleError"
    /\ op.options = JUndefined
    /\ ret.severity = "medium"
    /\ SuggestsOffline(ret)
    /\ Len(toasts) = 2

-----------------------------------------------------------------------------
(* C11: the notification of setOfflineMode *)

\* how many of the notifications of the last operation are t
CountToasts(t) == Cardinality({i \in 1..Len(toasts) : toasts[i] = t})

\* how many of its setOfflineMode calls had the argument b
CountCalls(b) == Cardinality({i \in 1..Len(calls) : calls[i] = b})

EnabledToast == Toast("info", "offline-mode-enabled")

\* C11: every call setOfflineMode(true) emits exactly one notification and
\* setOfflineMode(false) none, whoever calls: the operator, the 'offline'
\* listener or handleError (a caller's own notification is not counted).
C11_NotifyOnce ==
    /\ CountToasts(EnabledToast) = CountCalls(TRUE)
    /\ op.name = "setOfflineMode"
          => toasts = IF op.enabled THEN << EnabledToast >> ELSE << >>
    /\ op.name = "offline"
          => /\ calls = << TRUE >>
             /\ toasts = << Toast("warning", "network-lost-enabling-offline-mode"),
                            EnabledToast >>
    /\ op.name = "online"
          => /\ calls \in {<< >>, << FALSE >>}
             /\ CountToasts(EnabledToast) = 0
    /\ op.name = "handleError"
          => /\ calls \in {<< >>, << TRUE >>}
             /\ calls = << TRUE >> => toasts[Len(toasts)] = EnabledToast

\* the 'offline' listener enables a mode that handleError had enabled already
C11_Witness ==
    /\ op.name = "offline"
    /\ calls = << TRUE >>
    /\ CountToasts(EnabledToast) = 1
    /\ Len(toasts) = 2

-----------------------------------------------------------------------------
(* C12 - C14: the diagnostic report *)

\* the last operation produced a report
Reported == op.name = "diagnosticReport" /\ "overall" \in DOMAIN ret

\* the probes that returned success: false, by their own results
FailedProbes == {p \in ProbeSet : ~diag.probes[p].result.success}

\* C12 as claimed: with the connectivity probe failing and the dns, api and
\* cors probes succeeding the report is "degraded" with the single issue
\* naming the basic-connectivity failure.
C12_ConnectivityDegraded ==
    (Reported /\ FailedProbes = {"basicConnectivity"})
        => /\ ret.overall.status = "degraded"
           /\ ret.overall.issues = << "basic-network-connection-failed" >>

\* C12 as amended: in that case the report is "failed", with the single
\* issue naming the basic-connectivity failure.
C12_ConnectivityFailed ==
    (Reported /\ FailedProbes = {"basicConnectivity"})
        => /\ ret.overall.status = "failed"
           /\ ret.overall.issues = << "basic-network-connection-failed" >>

\* no endpoint answered, the other three probes succeeded
C12_Witness ==
    /\ Reported
    /\ FailedProbes = {"basicConnectivity"}
    /\ ret.basicConnectivity.details.successCount = 0
    /\ ret.dnsResolution.success /\ ret.cloudflareApi.success /\ ret.corsSupport.success

\* the issue and the recommendation of each check
IssueOf ==
    [p \in ProbeSet |->
        CASE p = "basicConnectivity" -> "basic-network-connection-failed"
          [] p = "dnsResolution"     -> "dns-resolution-failed"
          [] p = "cloudflareApi"     -> "cloudflare-api-connection-failed"
          [] OTHER                   -> "cors-support-abnormal"]

RecommendationOf(apiToken) ==
    [p \in ProbeSet |->
        CASE p = "basicConnectivity" -> "check-network-and-firewall"
          [] p = "dnsResolution"     -> "check-dns-settings"
          [] p = "cloudflareApi"     ->
                IF apiToken = JUndefined THEN "configure-a-valid-api-token"
                ELSE "check-api-token-validity-and-permissions"
          [] OTHER                   -> "check-browser-cors-settings-or-use-a-proxy"]

\* list has exactly one entry per failing probe, the entry of[p], in the
\* order of Probes
OnePerFailingProbe(list, of) ==
    /\ Len(list) = Cardinality(FailedProbes)
    /\ \A i \in DOMAIN Probes :
          Probes[i] \in FailedProbes
             => \E k \in DOMAIN list :
                   /\ list[k] = of[Probes[i]]
                   /\ k = 1 + Cardinality({j \in 1..(i - 1) : Probes[j] \in FailedProbes})

\* C13: in every report issues and recommendations hold exactly one entry
\* per failing probe and none for a succeeding one, in the order
\* connectivity, dns, api, cors, whatever order the probes completed in.
C13_FixedOrder ==
    Reported => /\ OnePerFailingProbe(ret.overall.issues, IssueOf)
                /\ OnePerFailingProbe(ret.overall.recommendations,
                                      RecommendationOf(op.apiToken))

\* cors completed first and connectivity last; both failed
C13_Witness ==
    /\ Reported
    /\ diag.order[1] = "corsSupport"
    /\ diag.order[4] = "basicConnectivity"
    /\ FailedProbes = {"basicConnectivity", "corsSupport"}
    /\ ret.overall.issues = << "basic-network-connection-failed", "cors-support-abnormal" >>

\* no probe has thrown and the report was not rejected
NoProbeRaises ==
    /\ \A p \in DOMAIN diag.probes : diag.probes[p].k # "throw"
    /\ op.name = "diagnosticReport" => "overall" \in DOMAIN ret

\* the probes that returned after a call of theirs was rejected
ReturnedAfterRejection ==
    {p \in DOMAIN diag.probes : diag.probes[p].k = "return" /\ p \in diag.raised}

\* C14 as claimed: no probe raises, generateDiagnosticReport is never
\* rejected, and a probe in which a call was rejected (network error, abort,
\* unreadable body) returns success: false.
C14_RejectionIsFailure ==
    /\ NoProbeRaises
    /\ \A p \in ReturnedAfterRejection : ~diag.probes[p].result.success

\* C14 as amended: no probe raises and generateDiagnosticReport is never
\* rejected; a rejected call makes the api and the cors probe return
\* success: false; the connectivity probe returns success: false iff no
\* endpoint answered with a success status, and the dns probe iff every
\* domain's fetch was aborted (any other rejection counts as a resolved domain).
C14_ProbesNeverRaise ==
    /\ NoProbeRaises
    /\ \A p \in ReturnedAfterRejection \cap {"cloudflareApi", "corsSupport"} :
          /\ ~diag.probes[p].result.success
          /\ diag.probes[p].result.details = ErrorDetails
    /\ \A p \in DOMAIN diag.probes :
          diag.probes[p].k = "return" =>
             LET r == diag.probes[p].result
             IN  /\ p = "basicConnectivity"
                      => r.success = (r.details.successCount > 0)
                 /\ p = "dnsResolution"
                      => r.success = (\E i \in DOMAIN r.details.results :
                                          r.details.results[i].note # "dns-timeout")

\* the body of the token verification could not be read: a failure result
C14_Witness ==
    /\ "cloudflareApi" \in ReturnedAfterRejection
    /\ diag.apiToken # JUndefined
    /\ diag.probes["cloudflareApi"].result.message = "api-connection-failed"
    /\ Reported

-----------------------------------------------------------------------------
(* C15 - C17: corrupt cache entries *)

\* the string under cache-<key> cannot be deserialized
Corrupt(store, key) == key \in DOMAIN store /\ ParseThrows(store[key])

\* C15 as claimed: getCachedData(k) on an entry that fails to deserialize
\* returns null and removes cache-k.
C15_CorruptEvicted ==
    [][(op'.name = "getCachedData" /\ Corrupt(localStorage, CacheKey(op'.key)))
          => /\ ret' = JNull
             /\ CacheKey(op'.key) \notin DOMAIN localStorage']_vars

\* C15 as amended: getCachedData(k) on such an entry returns null and leaves
\* the store, the corrupt entry included, as it is.
C15_CorruptKept ==
    [][(op'.name = "getCachedData" /\ Corrupt(localStorage, CacheKey(op'.key)))
          => /\ ret' = JNull
             /\ localStorage' = localStorage]_vars

\* a read of a corrupt entry: null, and the entry is still there
C15_Witness ==
    /\ op.name = "getCachedData"
    /\ ret = JNull
    /\ GetItem(localStorage, CacheKey(op.key)) = CorruptText

\* an entry cacheData wrote: an object with a numeric timestamp
ValidEntry(store, key) ==
    /\ key \in DOMAIN store
    /\ ~ParseThrows(store[key])
    /\ Prop(JSONparse(store[key]), "timestamp").t = "number"

\* C16: after cleanExpiredCache the store holds no cache- entry that is
\* expired or cannot be deserialized, and every valid entry that is not
\* expired is still there with the same string.
C16_SweepClean ==
    [][op'.name = "cleanExpiredCache" =>
          /\ \A k \in DOMAIN localStorage' :
                IsCacheKey(k) =>
                   /\ ~Corrupt(localStorage', k)
                   /\ ~IsExpired(JSONparse(localStorage'[k]), now')
          /\ \A k \in DOMAIN localStorage :
                (IsCacheKey(k) /\ ValidEntry(localStorage, k)
                   /\ ~IsExpired(JSONparse(localStorage[k]), now))
                => /\ k \in DOMAIN localStorage'
                   /\ localStorage'[k] = localStorage[k]]_vars

\* the strings of the cache entries, by name
CacheEntryLength(store, name) ==
    IF CacheKey(name) \in DOMAIN store THEN StringLength(store[CacheKey(name)]) ELSE 0

-----------------------------------------------------------------------------
(* C18: a store that throws *)

Faults == {"none", "quota", "denied"}

InitFault ==
    /\ \E blob \in {Absent, JSONstringify(JObj([f \in {"enabled"} |-> JBool(TRUE)]))} :
       \E names \in SUBSET {"version-info"} :
       \E entries \in [names -> {CorruptText, OldEntry}] :
           localStorage = StoreOf(blob, entries)
    /\ storageFault \in Faults
    /\ offlineConfig = loadOfflineConfig(DefaultOfflineConfig, localStorage, storageFault)
    /\ onLine = TRUE
    /\ now = 0
    /\ timers = << >>
    /\ toasts = << >>
    /\ calls = << >>
    /\ op = [name |-> "construct"]
    /\ ret = JUndefined
    /\ putLog = [n \in CacheNames |-> NoPut]
    /\ enabledBy = "nobody"
    /\ diag = DiagIdle
    /\ net = NetIdle
    /\ documents = NoDocuments
    /\ networkStatus = NetworkStatusUnmounted
    /\ workerPage = WorkerPageUnmounted

NextFault ==
    \/ \E fault \in Faults : StorageChanges(fault)
    \/ Construct
    \/ \E enabled \in BOOLEAN : CallSetOfflineMode(enabled)
    \/ \E key \in CacheNames : CallCacheData(key, JStr("code"))
    \/ \E key \in CacheNames : CallGetCachedData(key)
    \/ CallCleanExpiredCache
    \/ CallGetCacheStats
    \/ Tick(CACHE_DURATION + 1, CacheClock)

SpecFault == InitFault /\ [][NextFault]_vars

\* C18: while the store throws, every operation still completes: a write
\* that fails leaves the store as it is (cacheData, the save of
\* setOfflineMode, which still sets the flag in memory and notifies); a read
\* that fails counts as no data (getCachedData returns null, getCacheStats
\* zero counts, the load of the constructor keeps the defaults,
\* cleanExpiredCache removes nothing).
C18_StorageFailures ==
    [][/\ (WriteThrows(storageFault) /\ op'.name = "cacheData")
            => localStorage' = localStorage
       /\ (WriteThrows(storageFault) /\ op'.name = "setOfflineMode")
            => /\ localStorage' = localStorage
               /\ offlineConfig'["enabled"] = JBool(op'.enabled)
               /\ Len(toasts') = IF op'.enabled THEN 1 ELSE 0
       /\ (ReadThrows(storageFault) /\ op'.name = "getCachedData")
            => /\ ret' = JNull
               /\ localStorage' = localStorage
       /\ (ReadThrows(storageFault) /\ op'.name = "getCacheStats")
            => /\ ret'.totalItems = 0
               /\ ret'.totalSize = 0
               /\ localStorage' = localStorage
       /\ (ReadThrows(storageFault) /\ op'.name = "cleanExpiredCache")
            => localStorage' = localStorage
       /\ (ReadThrows(storageFault) /\ op'.name = "construct")
            => /\ offlineConfig' = DefaultOfflineConfig
               /\ localStorage' = localStorage]_vars

\* a cacheData that found the store full: the older entry is still there
C18_Witness ==
    /\ storageFault = "quota"
    /\ op.name = "cacheData"
    /\ op.key = "version-info"
    /\ GetItem(localStorage, CacheKey("version-info")) = OldEntry
    /\ now > 0

-----------------------------------------------------------------------------
(* C19: the load of the ModeState *)

\* C19: after the constructor's load the in-memory ModeState is the blob
\* merged over the defaults { enabled: false }: every field of the blob with
\* the blob's value, enabled = false when the blob lacks it, no other field;
\* a missing or undeserializable blob leaves the defaults.
C19_LoadMerges ==
    op.name = "construct" =>
        LET stored == GetItem(localStorage, STORAGE_KEY)
        IN  IF stored = Absent \/ ParseThrows(stored)
            THEN offlineConfig = DefaultOfflineConfig
            ELSE LET blob == JSONparse(stored).o
                 IN  /\ DOMAIN offlineConfig = {"enabled"} \cup DOMAIN blob
                     /\ \A f \in DOMAIN blob : offlineConfig[f] = blob[f]
                     /\ "enabled" \notin DOMAIN blob
                           => offlineConfig["enabled"] = JBool(FALSE)

\* a blob of an older version without the flag: the default fills it in
C19_Witness ==
    /\ op.name = "construct"
    /\ STORAGE_KEY \in DOMAIN localStorage
    /\ PersistedFields(localStorage) = [f \in {"lastSyncTime"} |-> JNum(1)]
    /\ offlineConfig = [f \in {"enabled", "lastSyncTime"} |->
                           IF f = "enabled" THEN JBool(FALSE) ELSE JNum(1)]

-----------------------------------------------------------------------------
(* C20: the deferred suggestion of handleError *)

\* options of handleError that carry runDiagnostics
DeferredOptions ==
    {JUndefined,
     JObj(Field1("runDiagnostics", JBool(TRUE))),
     JObj(Field1("runDiagnostics", JBool(FALSE))),
     JObj(Spread(Field1("runDiagnostics", JBool(TRUE)), Field1("showToast", JBool(FALSE)))),
     JObj(Spread(Field1("runDiagnostics", JBool(TRUE)),
                 Field1("enableAutoOffline", JBool(FALSE))))}

\* failures of the network kind and of the other kinds
DeferredErrors ==
    {JObj(Field1("message", JStr(m))) :
        m \in {"Failed to fetch", "net::ERR_NAME_NOT_RESOLVED", "Request timed out",
               "blocked by CORS policy", "401 Unauthorized", "HTTP 503",
               "Malformed config", "Something went wrong"}}

InitDeferred ==
    /\ InitIdle
    /\ op = [name |-> "construct"]

NextDeferred ==
    \/ \E error \in DeferredErrors : \E options \in DeferredOptions :
           CallHandleError(error, JUndefined, options)
    \/ TimerFire
    \/ \E d \in {SuggestDelay \div 2, SuggestDelay} : Tick(d, HandlerClock)

SpecDeferred == InitDeferred /\ [][NextDeferred]_vars

\* the runDiagnostics option: off unless the options object carries the field
RunDiagnostics(options) ==
    IF options.t = "object" /\ "runDiagnostics" \in DOMAIN options.o
    THEN Truthy(options.o["runDiagnostics"])
    ELSE FALSE

Suggestion == Toast("info", "suggest-running-network-diagnostics")

Emitted(ts, toast) == \E i \in 1..Len(ts) : ts[i] = toast

\* C20: handleError schedules the suggestion once, due 2000 ms after the
\* call, iff the diagnosis is of the network kind and runDiagnostics is on
\* (it is off by default); it returns the diagnosis in the same step, the
\* suggestion still pending; the suggestion is emitted only by a scheduled
\* timer that is due, once per timer, and nothing else schedules or drops one.
C20_DeferredSuggestion ==
    [][/\ op'.name = "handleError" =>
            /\ timers' = IF ret'.type = "network" /\ RunDiagnostics(op'.options)
                         THEN Append(timers, now + 2000) ELSE timers
            /\ now' = now
            /\ ret'.type \in Kinds
            /\ ~Emitted(toasts', Suggestion)
       /\ Emitted(toasts', Suggestion) =>
            /\ op'.name = "timer"
            /\ timers # << >>
            /\ Head(timers) <= now
            /\ timers' = Tail(timers)
            /\ toasts' = << Suggestion >>
       /\ op'.name \notin {"handleError", "timer"} => timers' = timers]_vars

\* the suggestion of a network failure handled with runDiagnostics, emitted
\* when its 2000 ms have passed
C20_Witness ==
    /\ op.name = "timer"
    /\ toasts = << Suggestion >>
    /\ now = 2000
    /\ timers = << >>

-----------------------------------------------------------------------------
(* The configuration manager: validation, export, import *)

\* typeof
TypeOf(v) ==
    CASE v.t \in {"object", "null"} -> "object"
      [] v.t \in {"number", "NaN"}  -> "number"
      [] OTHER                      -> v.t

DecimalDigit == << "0", "1", "2", "3", "4", "5", "6", "7", "8", "9" >>

RECURSIVE Decimal(_)
Decimal(n) ==
    IF n < 10 THEN DecimalDigit[n + 1]
    ELSE Decimal(n \div 10) \o DecimalDigit[(n % 10) + 1]

RECURSIVE AllIn(_, _)
\* every character of s is one of chars
AllIn(s, chars) ==
    IF Len(s) = 0 THEN TRUE
    ELSE IF Len(s) = 1 THEN s \in chars
    ELSE LET half == Len(s) \div 2
         IN  AllIn(SubSeq(s, 1, half), chars) /\ AllIn(SubSeq(s, half + 1, Len(s)), chars)

DigitChars == {DecimalDigit[i] : i \in 1..10}

\* new Date(t).toISOString(), rendered as the milliseconds after a "T"
toISOString(t) == "T" \o Decimal(t)

\* isNaN(new Date(s).getTime()): the text is no date
InvalidDate(s) ==
    ~(Len(s) >= 2 /\ SubSeq(s, 1, 1) = "T" /\ AllIn(SubSeq(s, 2, Len(s)), DigitChars))

requiredFields ==
    << "cloudflareApiToken", "cloudflareAccountId", "cloudflareWorkerId",
       "cosSecretId", "cosSecretKey", "cosBucket", "cosRegion" >>

cloudflareFields == << "cloudflareApiToken", "cloudflareAccountId", "cloudflareWorkerId" >>

cosFields == << "cosSecretId", "cosSecretKey", "cosBucket", "cosRegion" >>

validRegions ==
    {"ap-beijing", "ap-shanghai", "ap-guangzhou", "ap-chengdu", "ap-nanjing", "ap-hongkong"}

HexChars == DigitChars \cup {"a", "b", "c", "d", "e", "f", "A", "B", "C", "D", "E", "F"}

\* /^[a-f0-9]{32}$/i.test(s)
IsAccountId(s) == Len(s) = 32 /\ AllIn(s, HexChars)

\* fields.some(field => config[field])
SomeField(fields, config) == \E i \in 1..Len(fields) : Truthy(Prop(config, fields[i]))

\* fields.filter(field => !config[field]).length > 0
MissingField(fields, config) == \E i \in 1..Len(fields) : ~Truthy(Prop(config, fields[i]))

RECURSIVE FieldErrors(_, _)
\* the loop over requiredFields, from field i on
FieldErrors(config, i) ==
    IF i > Len(requiredFields) THEN << >>
    ELSE (IF requiredFields[i] \notin DOMAIN config.o
          THEN << << "missing-field", requiredFields[i] >> >>
          ELSE IF TypeOf(config.o[requiredFields[i]]) # "string"
          THEN << << "field-not-string", requiredFields[i] >> >>
          ELSE << >>) \o FieldErrors(config, i + 1)

ValidationResult(errors, warnings) ==
    [isValid |-> errors = << >>, errors |-> errors, warnings |-> warnings]

\* mutant of validateConfigFileDetailed: a warning makes the file invalid
validateConfigFileStrict(data) ==
    IF ~Truthy(data) \/ TypeOf(data) # "object"
    THEN [isValid |-> FALSE, errors |-> << "not-an-object" >>, warnings |-> << >>]
    ELSE
    LET version == Prop(data, "version")
        timestamp == Prop(data, "timestamp")
        config == Prop(data, "config")
        e1 == IF ~Truthy(version) THEN << "version-missing" >>
              ELSE IF TypeOf(version) # "string" THEN << "version-not-string" >>
              ELSE << >>
        e2 == IF ~Truthy(timestamp) THEN << "timestamp-missing" >>
              ELSE IF TypeOf(timestamp) # "string" THEN << "timestamp-not-string" >>
              ELSE IF InvalidDate(timestamp.s) THEN << "timestamp-invalid" >>
              ELSE << >>
        token == Prop(config, "cloudflareApiToken")
        account == Prop(config, "cloudflareAccountId")
        region == Prop(config, "cosRegion")
        w1 == IF SomeField(cloudflareFields, config) /\ MissingField(cloudflareFields, config)
              THEN << "cloudflare-incomplete" >> ELSE << >>
        w2 == IF SomeField(cosFields, config) /\ MissingField(cosFields, config)
              THEN << "cos-incomplete" >> ELSE << >>
        w3 == IF Truthy(region) /\ ~(region.t = "string" /\ region.s \in validRegions)
              THEN << "region-unknown" >> ELSE << >>
        w4 == IF Truthy(token) /\ token.t = "string" /\ Len(token.s) < 20
              THEN << "token-short" >> ELSE << >>
        w5 == IF Truthy(account) /\ ~(account.t = "string" /\ IsAccountId(account.s))
              THEN << "account-id-format" >> ELSE << >>
    IN  IF ~Truthy(config)
        THEN [isValid |-> FALSE, errors |-> e1 \o e2 \o << "config-missing" >>,
              warnings |-> << >>]
        ELSE IF TypeOf(config) # "object"
        THEN [isValid |-> FALSE, errors |-> e1 \o e2 \o << "config-not-object" >>,
              warnings |-> << >>]
        ELSE [isValid |-> (e1 \o e2 \o FieldErrors(config, 1) = << >>)
                          /\ (w1 \o w2 \o w3 \o w4 \o w5 = << >>),
              errors |-> e1 \o e2 \o FieldErrors(config, 1),
              warnings |-> w1 \o w2 \o w3 \o w4 \o w5]

\* validateConfigFileDetailed: the errors and the warnings of a parsed document
validateConfigFileDetailed(data) ==
    IF ~Truthy(data) \/ TypeOf(data) # "object"
    THEN [isValid |-> FALSE, errors |-> << "not-an-object" >>, warnings |-> << >>]
    ELSE
    LET version == Prop(data, "version")
        timestamp == Prop(data, "timestamp")
        config == Prop(data, "config")
        e1 == IF ~Truthy(version) THEN << "version-missing" >>
              ELSE IF TypeOf(version) # "string" THEN << "version-not-string" >>
              ELSE << >>
        e2 == IF ~Truthy(timestamp) THEN << "timestamp-missing" >>
              ELSE IF TypeOf(timestamp) # "string" THEN << "timestamp-not-string" >>
              ELSE IF InvalidDate(timestamp.s) THEN << "timestamp-invalid" >>
              ELSE << >>
        token == Prop(config, "cloudflareApiToken")
        account == Prop(config, "cloudflareAccountId")
        region == Prop(config, "cosRegion")
        w1 == IF SomeField(cloudflareFields, config) /\ MissingField(cloudflareFields, config)
              THEN << "cloudflare-incomplete" >> ELSE << >>
        w2 == IF SomeField(cosFields, config) /\ MissingField(cosFields, config)
              THEN << "cos-incomplete" >> ELSE << >>
        w3 == IF Truthy(region) /\ ~(region.t = "string" /\ region.s \in validRegions)
              THEN << "region-unknown" >> ELSE << >>
        w4 == IF Truthy(token) /\ token.t = "string" /\ Len(token.s) < 20
              THEN << "token-short" >> ELSE << >>
        w5 == IF Truthy(account) /\ ~(account.t = "string" /\ IsAccountId(account.s))
              THEN << "account-id-format" >> ELSE << >>
    IN  IF ~Truthy(config)
        THEN ValidationResult(e1 \o e2 \o << "config-missing" >>, << >>)
        ELSE IF TypeOf(config) # "object"
        THEN ValidationResult(e1 \o e2 \o << "config-not-object" >>, << >>)
        ELSE ValidationResult(e1 \o e2 \o FieldErrors(config, 1),
                              w1 \o w2 \o w3 \o w4 \o w5)

validateConfigFile(data) == validateConfigFileDetailed(data).isValid

\* the ConfigFile object the exports build
ConfigFile(config, t, metadata) ==
    JObj([f \in {"version", "timestamp", "config", "metadata"} |->
            CASE f = "version"   -> JStr("1.0.0")
              [] f = "timestamp" -> JStr(toISOString(t))
              [] f = "config"    -> JObj(config)
              [] OTHER           -> JObj([g \in metadata |-> JStr(g)])])

\* outcome of an export or import: the documents, the store, the toast, the result
Outcome(docs, store, toast, result) ==
    [docs |-> docs, store |-> store, toasts |-> << toast >>, result |-> result]

Rejected == [t |-> "rejected"]

\* exportConfigToFile: the browser downloads the JSON text
exportConfigToFile(docs, store, config, t) ==
    Outcome([docs EXCEPT !.file =
                 JSONstringify(ConfigFile(config, t, {"exportedBy", "description"}))],
            store, Toast("success", "config-file-exported"), JUndefined)

\* exportConfigToClipboard: writeText rejects when the page may not write
exportConfigToClipboard(docs, store, config, t, granted) ==
    IF granted
    THEN Outcome([docs EXCEPT !.clipboard =
                      JSONstringify(ConfigFile(config, t, {"exportedBy", "description"}))],
                 store, Toast("success", "config-copied-to-clipboard"), JUndefined)
    ELSE Outcome(docs, store, Toast("error", "copy-to-clipboard-failed"), JUndefined)

\* saveConfigToLocal
saveConfigToLocal(docs, store, config, key, t, fault) ==
    IF WriteThrows(fault)
    THEN Outcome(docs, store, Toast("error", "save-config-failed"), JUndefined)
    ELSE Outcome(docs, SetItem(store, key, JSONstringify(ConfigFile(config, t, {"description"}))),
                 Toast("success", "config-saved-locally"), JUndefined)

\* importConfigFromFile on the file the user picked (Absent: none picked; no
\* toast then, the only case without one)
importConfigFromFile(docs, store, file) ==
    IF file = Absent THEN [docs |-> docs, store |-> store, toasts |-> << >>, result |-> Rejected]
    ELSE IF ParseThrows(file) \/ ~validateConfigFile(JSONparse(file))
    THEN Outcome(docs, store, Toast("error", "config-file-format-error"), Rejected)
    ELSE Outcome(docs, store, Toast("success", "config-file-imported"),
                 Prop(JSONparse(file), "config"))

\* safeImportConfig: as importConfigFromFile, the warnings in the toast
safeImportConfig(docs, store, file) ==
    IF file = Absent
    THEN Outcome(docs, store, Toast("error", "no-file-selected"), Rejected)
    ELSE IF ParseThrows(file)
    THEN Outcome(docs, store, Toast("error", "syntax-error"), Rejected)
    ELSE LET validation == validateConfigFileDetailed(JSONparse(file))
         IN  IF ~validation.isValid
             THEN Outcome(docs, store, Toast("error", "config-file-validation-failed"), Rejected)
             ELSE Outcome(docs, store,
                          IF Len(validation.warnings) > 0
                          THEN Toast("warning", "config-imported-with-warnings")
                          ELSE Toast("success", "config-file-imported"),
                          JObj([f \in {"config", "validation"} |->
                                  IF f = "config" THEN Prop(JSONparse(file), "config")
                                  ELSE validation]))

\* importConfigFromClipboard: readText rejects when the page may not read; an
\* empty clipboard reads as the empty string
importConfigFromClipboard(docs, store, granted) ==
    LET text == IF docs.clipboard = Absent THEN EmptyText ELSE docs.clipboard
    IN  IF ~granted \/ ParseThrows(text) \/ ~validateConfigFile(JSONparse(text))
        THEN Outcome(docs, store, Toast("error", "clipboard-format-error-or-empty"), Rejected)
        ELSE Outcome(docs, store, Toast("success", "config-imported-from-clipboard"),
                     Prop(JSONparse(text), "config"))

\* loadConfigFromLocal
loadConfigFromLocal(docs, store, key, fault) ==
    IF ReadThrows(fault)
    THEN Outcome(docs, store, Toast("error", "load-local-config-failed"), JNull)
    ELSE LET stored == GetItem(store, key)
         IN  IF Falsy(stored)
             THEN [docs |-> docs, store |-> store, toasts |-> << >>, result |-> JNull]
             ELSE IF ParseThrows(stored) \/ ~validateConfigFile(JSONparse(stored))
             THEN Outcome(docs, store, Toast("error", "load-local-config-failed"), JNull)
             ELSE [docs |-> docs, store |-> store, toasts |-> << >>,
                   result |-> Prop(JSONparse(stored), "config")]

-----------------------------------------------------------------------------
(* The configuration manager on its own *)

SAVED_CONFIG == "saved-config"

\* a Config of the store: seven strings
Config(token, account, region, rest) ==
    [f \in {requiredFields[i] : i \in 1..Len(requiredFields)} |->
        JStr(CASE f = "cloudflareApiToken"  -> token
               [] f = "cloudflareAccountId" -> account
               [] f = "cosRegion"           -> region
               [] OTHER                     -> rest)]

\* the empty default, a complete one, and ones that draw every warning
Configs ==
    {Config("", "", "", ""),
     Config("tokentokentokentoken", "0123456789abcdef0123456789ABCDEF", "ap-chengdu", "x"),
     Config("short", "", "mars", ""),
     Config("short", "account", "mars", "x")}

\* documents of another origin: no JSON, the JSON text null, a document
\* without a timestamp, one whose config lacks a field, one with a field
\* that is no string, one with a timestamp that is no date
ForeignDocuments ==
    {CorruptText, JSONstringify(JNull),
     JSONstringify(JObj([f \in {"version", "config"} |->
        IF f = "version" THEN JStr("1.0.0") ELSE JObj(Config("", "", "", ""))])),
     JSONstringify(JObj([f \in {"version", "timestamp", "config"} |->
        CASE f = "version"   -> JNum(1)
          [] f = "timestamp" -> JStr("T0")
          [] OTHER           -> JObj([g \in {"cosBucket"} |-> JBool(TRUE)])])),
     JSONstringify(JObj([f \in {"version", "timestamp", "config"} |->
        CASE f = "version"   -> JStr("1.0.0")
          [] f = "timestamp" -> JStr("yesterday")
          [] OTHER           -> JStr("none")]))}

\* an export or import of the configuration manager ran
ConfigStep(name, args, r) ==
    /\ documents' = r.docs
    /\ localStorage' = r.store
    /\ toasts' = r.toasts
    /\ ret' = r.result
    /\ op' = [name |-> name] @@ args
    /\ calls' = << >>
    /\ UNCHANGED << net, networkStatus, workerPage, diag, storageFault, offlineConfig, onLine, now,
                    timers, putLog, enabledBy >>

CallExportConfigToFile(config) ==
    ConfigStep("exportConfigToFile", [config |-> config],
               exportConfigToFile(documents, localStorage, config, now))

CallExportConfigToClipboard(config, granted) ==
    ConfigStep("exportConfigToClipboard", [config |-> config],
               exportConfigToClipboard(documents, localStorage, config, now, granted))

CallSaveConfigToLocal(config, key) ==
    ConfigStep("saveConfigToLocal", [config |-> config, key |-> key],
               saveConfigToLocal(documents, localStorage, config, key, now, storageFault))

\* the user picks the downloaded file, a file of another origin, or none
CallImportConfigFromFile(file) ==
    ConfigStep("importConfigFromFile", [file |-> file],
               importConfigFromFile(documents, localStorage, file))

CallSafeImportConfig(file) ==
    ConfigStep("safeImportConfig", [file |-> file],
               safeImportConfig(documents, localStorage, file))

CallImportConfigFromClipboard(granted) ==
    ConfigStep("importConfigFromClipboard", [granted |-> granted],
               importConfigFromClipboard(documents, localStorage, granted))

CallLoadConfigFromLocal(key) ==
    ConfigStep("loadConfigFromLocal", [key |-> key],
               loadConfigFromLocal(documents, localStorage, key, storageFault))

InitConfig ==
    /\ \E saved \in {CorruptText, Absent} :
           localStorage = IF saved = Absent THEN << >>
                          ELSE [k \in {SAVED_CONFIG} |-> saved]
    /\ storageFault \in {"none", "quota"}
    /\ offlineConfig = DefaultOfflineConfig
    /\ onLine = TRUE
    /\ now \in {0, CACHE_DURATION}
    /\ timers = << >>
    /\ toasts = << >>
    /\ calls = << >>
    /\ op = [name |-> "construct"]
    /\ ret = JUndefined
    /\ putLog = [n \in CacheNames |-> NoPut]
    /\ enabledBy = "nobody"
    /\ diag = DiagIdle
    /\ net = NetIdle
    /\ \E copied \in {CorruptText, Absent} :
           documents = [file |-> Absent, clipboard |-> copied]
    /\ networkStatus = NetworkStatusUnmounted
    /\ workerPage = WorkerPageUnmounted

NextConfig ==
    \/ \E config \in Configs : CallExportConfigToFile(config)
    \/ \E config \in Configs : \E granted \in BOOLEAN :
           CallExportConfigToClipboard(config, granted)
    \/ \E config \in Configs : CallSaveConfigToLocal(config, SAVED_CONFIG)
    \/ \E file \in {documents.file} \cup ForeignDocuments :
           CallImportConfigFromFile(file)
    \/ \E file \in {documents.file} \cup ForeignDocuments : CallSafeImportConfig(file)
    \/ \E granted \in BOOLEAN : CallImportConfigFromClipboard(granted)
    \/ CallLoadConfigFromLocal(SAVED_CONFIG)

SpecConfig == InitConfig /\ [][NextConfig]_vars

\* the seven fields of two configs are equal, field by field
SameConfig(v, config) ==
    /\ v.t = "object"
    /\ \A i \in 1..Len(requiredFields) :
           /\ requiredFields[i] \in DOMAIN v.o
           /\ v.o[requiredFields[i]] = config[requiredFields[i]]

\* the last step exported successfully
Exported(name) ==
    /\ op.name = name
    /\ toasts # << >>
    /\ toasts[1].level = "success"

\* C21: an import that follows a successful export through the same channel
\* (the downloaded file, the clipboard, the saved-config key) returns a
\* config equal to the exported one in all seven fields, whatever warnings
\* the validation has for it.
C21_RoundTrip ==
    [][/\ (Exported("exportConfigToFile") /\ op'.name = "importConfigFromFile"
              /\ op'.file = documents.file) => SameConfig(ret', op.config)
       /\ (Exported("exportConfigToFile") /\ op'.name = "safeImportConfig"
              /\ op'.file = documents.file)
             => ret' # Rejected /\ SameConfig(ret'.o["config"], op.config)
       /\ (Exported("exportConfigToClipboard") /\ op'.name = "importConfigFromClipboard"
              /\ op'.granted)
             => SameConfig(ret', op.config)
       /\ (Exported("saveConfigToLocal") /\ op'.name = "loadConfigFromLocal")
             => SameConfig(ret', op.config)]_vars

\* a config with three warnings, back from the file it was exported to
C21_Witness ==
    /\ op.name = "safeImportConfig"
    /\ toasts = << Toast("warning", "config-imported-with-warnings") >>
    /\ ret # Rejected
    /\ ret.o["validation"].warnings = << "region-unknown", "token-short",
                                          "account-id-format" >>
    /\ ret.o["config"] = JObj(Config("short", "account", "mars", "x"))
    /\ op.file = documents.file

-----------------------------------------------------------------------------
(* C23, C26: the report as a whole *)

\* the field of the report that holds each probe's result
ReportField(r, p) ==
    CASE p = "basicConnectivity" -> r.basicConnectivity
      [] p = "dnsResolution"     -> r.dnsResolution
      [] p = "cloudflareApi"     -> r.cloudflareApi
      [] OTHER                   -> r.corsSupport

\* C23: generateDiagnosticReport starts the four probes in the step of the
\* call, before any of them has settled; it returns only in a step in which
\* all four have returned, with the result of each; until then, however many
\* have finished or failed, nothing is returned.
C23_FanOutFanIn ==
    [][/\ op'.name = "generateDiagnosticReport" =>
            /\ DOMAIN diag'.probes = ProbeSet
            /\ \A p \in ProbeSet : diag'.probes[p].k = "await"
            /\ diag'.order = << >>
            /\ ret' = JUndefined
       /\ op'.name = "diagnosticReport" =>
            /\ \A p \in ProbeSet : diag.probes[p].k = "return"
            /\ Len(diag.order) = Len(Probes)
            /\ \A p \in ProbeSet : ReportField(ret', p) = diag.probes[p].result
       /\ (diag'.phase = "running" /\ \E p \in ProbeSet : diag'.probes[p].k = "await")
             => ret' = JUndefined]_vars

\* the api probe failed first, the report came after the other three
C23_Witness ==
    /\ Reported
    /\ diag.order[1] = "cloudflareApi"
    /\ diag.order[4] = "dnsResolution"
    /\ FailedProbes = {"cloudflareApi"}
    /\ ret.dnsResolution = diag.probes["dnsResolution"].result

\* C26: overall.status is "healthy" iff all four probes succeed, which is
\* iff issues is empty; "failed" iff the connectivity or the api probe
\* fails; "degraded" iff both of these succeed and dns or cors fails.
C26_OverallStatus ==
    Reported =>
        LET failed == {p \in ProbeSet : ~ReportField(ret, p).success}
        IN  /\ ret.overall.status \in {"healthy", "failed", "degraded"}
            /\ ret.overall.status = "healthy" <=> failed = {}
            /\ failed = {} <=> ret.overall.issues = << >>
            /\ ret.overall.status = "failed"
                  <=> ("basicConnectivity" \in failed \/ "cloudflareApi" \in failed)
            /\ ret.overall.status = "degraded"
                  <=> /\ "basicConnectivity" \notin failed
                      /\ "cloudflareApi" \notin failed
                      /\ ("dnsResolution" \in failed \/ "corsSupport" \in failed)

\* connectivity is fine, the token is refused: failed, not degraded
C26_Witness ==
    /\ Reported
    /\ FailedProbes = {"cloudflareApi"}
    /\ ret.cloudflareApi.message = "token-verification-failed"
    /\ ret.overall.status = "failed"
    /\ ret.overall.issues = << "cloudflare-api-connection-failed" >>

-----------------------------------------------------------------------------
(* NetworkDiagnostics: fetches, AbortControllers and timeouts *)

TIMEOUT_MS == 10000

\* setTimeout(() => controller.abort(), 5000) of testDnsResolution
DNS_TIMEOUT_MS == 5000

\* and of testCorsSupport
CORS_TIMEOUT_MS == 5000

IndexOf(list, x) == CHOOSE i \in DOMAIN list : list[i] = x

InList(list, x) == \E i \in DOMAIN list : list[i] = x

\* the probe that awaits a call: the fetch of an endpoint, of a domain, of
\* the API ("api", "tokenVerify"), the reading of the token response's body
\* ("json"), the OPTIONS fetch ("cors")
ProbeOf(call) ==
    CASE InList(TestEndpoints, call)            -> "basicConnectivity"
      [] InList(TestDomains, call)              -> "dnsResolution"
      [] call \in {"api", "tokenVerify", "json"} -> "cloudflareApi"
      [] OTHER                                  -> "corsSupport"

Without(f, k) == [x \in DOMAIN f \ {k} |-> f[x]]

\* mutant of StartProbe: the CORS fetch carries the signal of the API probe
StartProbeSharingSignal(p, t) ==
    CASE p = "basicConnectivity" ->
            [probe    |-> Awaiting("allSettled", << >>),
             requests |-> [u \in {TestEndpoints[i] : i \in DOMAIN TestEndpoints} |-> p],
             timeouts |-> [c \in {p} |-> t + TIMEOUT_MS]]
      [] p = "dnsResolution" ->
            [probe    |-> Awaiting("fetch", << >>),
             requests |-> [u \in {TestDomains[1]} |-> TestDomains[1]],
             timeouts |-> [c \in {TestDomains[1]} |-> t + DNS_TIMEOUT_MS]]
      [] p = "cloudflareApi" ->
            [probe    |-> Awaiting("api", << >>),
             requests |-> [u \in {"api"} |-> p],
             timeouts |-> [c \in {p} |-> t + TIMEOUT_MS]]
      [] OTHER ->
            [probe    |-> Awaiting("fetch", << >>),
             requests |-> [u \in {"cors"} |-> "cloudflareApi"],
             timeouts |-> [c \in {"cloudflareApi"} |-> t + CORS_TIMEOUT_MS]]

\* a probe from its call to its first await: where it stands, the fetches it
\* issued with the controller each carries as signal, the timeouts it armed
StartProbe(p, t) ==
    CASE p = "basicConnectivity" ->
            [probe    |-> Awaiting("allSettled", << >>),
             requests |-> [u \in {TestEndpoints[i] : i \in DOMAIN TestEndpoints} |-> p],
             timeouts |-> [c \in {p} |-> t + TIMEOUT_MS]]
      [] p = "dnsResolution" ->
            [probe    |-> Awaiting("fetch", << >>),
             requests |-> [u \in {TestDomains[1]} |-> TestDomains[1]],
             timeouts |-> [c \in {TestDomains[1]} |-> t + DNS_TIMEOUT_MS]]
      [] p = "cloudflareApi" ->
            [probe    |-> Awaiting("api", << >>),
             requests |-> [u \in {"api"} |-> p],
             timeouts |-> [c \in {p} |-> t + TIMEOUT_MS]]
      [] OTHER ->
            [probe    |-> Awaiting("fetch", << >>),
             requests |-> [u \in {"cors"} |-> p],
             timeouts |-> [c \in {p} |-> t + CORS_TIMEOUT_MS]]

\* a probe resumed by the settling of the call it awaits: where it stands
\* next, the fetch it issues next (if any), the timeout it arms, the
\* timeouts it clears.  A timeout left armed for a controller that has no
\* pending fetch any more (the fetch rejected) is dropped like a cleared
\* one: its abort() would find nothing to abort.
ResumeProbe(p, c, apiToken, call, out, t) ==
    CASE p = "basicConnectivity" ->
            LET results == c.acc @@ (IndexOf(TestEndpoints, call) :> out)
                all == DOMAIN results = DOMAIN TestEndpoints
            IN  [probe    |-> IF all THEN testBasicConnectivity(results)
                              ELSE Awaiting("allSettled", results),
                 requests |-> << >>,
                 timeouts |-> << >>,
                 cleared  |-> IF all THEN {p} ELSE {}]
      [] p = "dnsResolution" ->
            LET next == testDnsResolution(c.acc, out)
                domain == TestDomains[Len(c.acc) + 2]
            IN  [probe    |-> next,
                 requests |-> IF next.k = "await" THEN [u \in {domain} |-> domain] ELSE << >>,
                 timeouts |-> IF next.k = "await"
                              THEN [u \in {domain} |-> t + DNS_TIMEOUT_MS] ELSE << >>,
                 cleared  |-> {call}]
      [] p = "cloudflareApi" ->
            LET next == testCloudflareApi(c.at, apiToken, out)
            IN  [probe    |-> next,
                 requests |-> IF next.k = "await" THEN [u \in {next.at} |-> p] ELSE << >>,
                 timeouts |-> << >>,
                 cleared  |-> IF next.k = "await" /\ next.at = "tokenVerify"
                              THEN {} ELSE {p}]
      [] OTHER ->
            [probe    |-> testCorsSupport(out),
             requests |-> << >>,
             timeouts |-> << >>,
             cleared  |-> {p}]

\* the diagnostics and the network after a pending call settled with out
SettleCall(d, n, call, out, t) ==
    LET p == ProbeOf(call)
        r == ResumeProbe(p, d.probes[p], d.apiToken, call, out, t)
    IN  [diag |-> [d EXCEPT !.probes[p] = r.probe,
                            !.order = IF r.probe.k = "await" THEN @ ELSE Append(@, p),
                            !.raised = IF out \in {"network-error", "abort", "throws", "null"}
                                       THEN @ \cup {p} ELSE @],
         net  |-> [requests |-> r.requests @@ Without(n.requests, call),
                   timeouts |-> r.timeouts @@
                                [x \in DOMAIN n.timeouts \ r.cleared |-> n.timeouts[x]]]]

RECURSIVE AbortAll(_, _, _, _)
\* controller.abort(): every pending fetch that carries its signal rejects
AbortAll(d, n, pending, t) ==
    IF pending = {} THEN [diag |-> d, net |-> n]
    ELSE LET call == CHOOSE x \in pending : TRUE
             s == SettleCall(d, n, call, "abort", t)
         IN  AbortAll(s.diag, s.net, pending \ {call}, t)

MaxProbeTicks == 3   \* the clock of the probes runs over MaxProbeTicks DNS timeouts

ProbeClock == {n * DNS_TIMEOUT_MS : n \in 0..MaxProbeTicks}

\* how the network may answer a call: any way but the abort of its
\* controller when a probe runs on its own; during a report it answers well
\* or not at all (every other answer of the four together: SpecProbe)
AnswersOf(call) ==
    IF DOMAIN diag.probes = ProbeSet
    THEN (IF call = "json" THEN {"success"} ELSE {"ok"})
    ELSE (IF call = "json" THEN JsonOutcomes ELSE FetchOutcomes \ {"abort"})

DiagStep(d, n, o, r) ==
    /\ diag' = d
    /\ net' = n
    /\ op' = o
    /\ ret' = r
    /\ toasts' = << >>
    /\ calls' = << >>
    /\ UNCHANGED << documents, networkStatus, workerPage, localStorage, storageFault,
                    offlineConfig, onLine, now, timers, putLog, enabledBy >>

\* one probe is called on its own (S a single probe), or
\* generateDiagnosticReport calls the four
StartDiagnostics(S, apiToken) ==
    /\ diag.phase = "idle"
    /\ LET started == [p \in S |-> StartProbe(p, now)]
           union(field) ==
               [x \in UNION {DOMAIN started[p][field] : p \in S} |->
                   started[CHOOSE p \in S : x \in DOMAIN started[p][field]][field][x]]
       IN  DiagStep([phase |-> "running", apiToken |-> apiToken,
                     probes |-> [p \in S |-> started[p].probe],
                     order |-> << >>, raised |-> {}],
                    [requests |-> union("requests"), timeouts |-> union("timeouts")],
                    IF S = ProbeSet
                    THEN [name |-> "generateDiagnosticReport", apiToken |-> apiToken]
                    ELSE [name |-> "callProbe", probes |-> S],
                    JUndefined)

\* the network answers a pending call
Answer(call, out) ==
    /\ call \in DOMAIN net.requests
    /\ out \in AnswersOf(call)
    /\ LET s == SettleCall(diag, net, call, out, now)
       IN  DiagStep(s.diag, s.net, [name |-> "answer", call |-> call, out |-> out],
                    JUndefined)

\* a timeout that is due runs: controller.abort()
Timeout(c) ==
    /\ c \in DOMAIN net.timeouts
    /\ net.timeouts[c] <= now
    /\ LET s == AbortAll(diag, [net EXCEPT !.timeouts = Without(@, c)],
                         {call \in DOMAIN net.requests : net.requests[call] = c}, now)
       IN  DiagStep(s.diag, s.net, [name |-> "timeout", controller |-> c], JUndefined)

\* time passes while a probe runs, no further than the next timeout that
\* is due
TimePasses ==
    /\ diag.phase = "running"
    /\ \A c \in DOMAIN net.timeouts : net.timeouts[c] > now
    /\ Tick(DNS_TIMEOUT_MS, ProbeClock)

\* the probe called on its own returns to its caller
ProbeReturns ==
    /\ diag.phase = "running"
    /\ DOMAIN diag.probes # ProbeSet
    /\ \A p \in DOMAIN diag.probes : diag.probes[p].k = "return"
    /\ LET p == CHOOSE q \in DOMAIN diag.probes : TRUE
       IN  DiagStep([diag EXCEPT !.phase = "done"], net,
                    [name |-> "probeResult", probe |-> p], diag.probes[p].result)

\* generateDiagnosticReport returns to its caller
ReportReturns ==
    /\ DOMAIN diag.probes = ProbeSet
    /\ SettleReport

InitTimed ==
    /\ InitIdle
    /\ op = [name |-> "construct"]

NextTimed ==
    \/ \E S \in {{p} : p \in ProbeSet} \cup {ProbeSet} : \E apiToken \in ApiTokens :
           StartDiagnostics(S, apiToken)
    \/ \E call \in DOMAIN net.requests : \E out \in AnswersOf(call) : Answer(call, out)
    \/ \E c \in DOMAIN net.timeouts : Timeout(c)
    \/ TimePasses
    \/ ProbeReturns
    \/ ReportReturns

SpecTimed == InitTimed /\ [][NextTimed]_vars

-----------------------------------------------------------------------------
(* C22: the two calls of testCloudflareApi *)

API == "cloudflareApi"

\* the api probe was called and has not returned
ApiAt(d, at) == API \in DOMAIN d.probes /\ d.probes[API].k = "await" /\ d.probes[API].at = at

ApiResult(d) == d.probes[API].result

\* the step issues the token verification only as the answer "ok" of the
\* API endpoint arrives and a token was given; on any other status the
\* probe returns a failure in that step and verifies no token
TokenAfterBase ==
    /\ ("tokenVerify" \in DOMAIN net'.requests /\ "tokenVerify" \notin DOMAIN net.requests)
          => /\ op' = [name |-> "answer", call |-> "api", out |-> "ok"]
             /\ Truthy(diag.apiToken)
             /\ ApiAt(diag, "api")
    /\ op' = [name |-> "answer", call |-> "api", out |-> "http-error"]
          => /\ diag'.probes[API].k = "return"
             /\ ~ApiResult(diag').success
             /\ ApiResult(diag').message = "api-endpoint-unreachable"
             /\ "tokenVerify" \notin DOMAIN net'.requests

\* the result carries apiReachable = true, tokenValid, and success = tokenValid
ReportsBoth(r) ==
    /\ DOMAIN r.details = {"apiReachable", "tokenValid"}
    /\ r.details.apiReachable = TRUE
    /\ r.details.tokenValid \in BOOLEAN
    /\ r.success = r.details.tokenValid

\* the second call was made and the probe returns in this step
ReturnsAfterToken ==
    /\ ApiAt(diag, "tokenVerify") \/ ApiAt(diag, "json")
    /\ diag'.probes[API].k = "return"

\* C22 as claimed: the token verification is requested only after the API
\* endpoint answered with a success status and only with a token; a
\* non-success status returns a failure at once, without that request; when
\* both calls were made the result carries apiReachable = true and
\* tokenValid, with success = tokenValid.
C22_TokenSeparately ==
    [][/\ TokenAfterBase
       /\ ReturnsAfterToken => ReportsBoth(ApiResult(diag'))]_vars

\* C22 as amended: as claimed when the token endpoint answered (with any
\* status) and, on a success status, its body was read; when the token
\* request is rejected or aborted, or the body cannot be read, the result is
\* the plain failure { success: false, details: { error } }, without
\* apiReachable and tokenValid.
C22_TokenSeparatelyWhenAnswered ==
    [][/\ TokenAfterBase
       /\ ReturnsAfterToken =>
            IF op'.name = "answer" /\ op'.out \in {"http-error", "success", "no-success"}
            THEN /\ ReportsBoth(ApiResult(diag'))
                 /\ ApiResult(diag').details.tokenValid = (op'.out = "success")
            ELSE ApiResult(diag') =
                     NetworkDiagnosticResult(FALSE, "api-connection-failed", ErrorDetails)]_vars

\* the API answers, the token is refused: reachable, token not valid
C22_Witness ==
    /\ op = [name |-> "answer", call |-> "json", out |-> "no-success"]
    /\ diag.probes[API].k = "return"
    /\ ApiResult(diag).details = [tokenValid |-> FALSE, apiReachable |-> TRUE]
    /\ ~ApiResult(diag).success

-----------------------------------------------------------------------------
(* C24: the scope of the cancellation tokens *)

\* the probe that created a controller (testDnsResolution names one per domain)
OwnerOf(c) == IF InList(TestDomains, c) THEN "dnsResolution" ELSE c

\* the calls pending with the signal of controller c
Carrying(n, c) == {call \in DOMAIN n.requests : n.requests[call] = c}

\* the pending calls and armed timeouts of probe q
NetOf(n, q) ==
    << {call \in DOMAIN n.requests : ProbeOf(call) = q},
       [c \in {x \in DOMAIN n.timeouts : OwnerOf(x) = q} |-> n.timeouts[c]] >>

\* a timeout leaves every other probe where it stands, with its calls and
\* its timeouts
SiblingsUntouched ==
    op'.name = "timeout" =>
        \A q \in DOMAIN diag.probes \ {OwnerOf(op'.controller)} :
            /\ diag'.probes[q] = diag.probes[q]
            /\ NetOf(net', q) = NetOf(net, q)

\* C24 as claimed: every pending call has a controller and a timeout of its
\* own, so that a timeout aborts one call and no other; and a timeout of one
\* probe leaves its sibling probes untouched.
C24_CallScoped ==
    [][/\ \A c \in DOMAIN net.timeouts : Cardinality(Carrying(net, c)) <= 1
       /\ \A call \in DOMAIN net'.requests \ DOMAIN net.requests :
             /\ Carrying(net', net'.requests[call]) = {call}
             /\ net'.requests[call] \notin DOMAIN net.timeouts
       /\ SiblingsUntouched]_vars

\* C24 as amended: a controller and its timeout belong to one probe and
\* abort only calls of that probe, so a timeout leaves the sibling probes
\* untouched; within a probe they are shared: the three connectivity
\* fetches carry one signal and are aborted together, the token verification
\* carries the signal of the API fetch and runs under the timeout armed
\* before that fetch; only testDnsResolution has one per call.
C24_ProbeScoped ==
    [][/\ \A call \in DOMAIN net'.requests :
             OwnerOf(net'.requests[call]) = ProbeOf(call)
       /\ SiblingsUntouched
       /\ \A call \in DOMAIN net'.requests :
             CASE ProbeOf(call) = "basicConnectivity" ->
                     net'.requests[call] = "basicConnectivity"
               [] ProbeOf(call) = "cloudflareApi" ->
                     /\ net'.requests[call] = "cloudflareApi"
                     /\ (call = "tokenVerify" /\ call \notin DOMAIN net.requests)
                           => /\ "cloudflareApi" \in DOMAIN net.timeouts
                              /\ net'.timeouts = net.timeouts
               [] ProbeOf(call) = "dnsResolution" ->
                     /\ net'.requests[call] = call
                     /\ Carrying(net', call) = {call}
               [] OTHER -> net'.requests[call] = "corsSupport"
       /\ (op'.name = "timeout" /\ op'.controller = "basicConnectivity")
             => Carrying(net, "basicConnectivity")
                   = {TestEndpoints[i] : i \in DOMAIN TestEndpoints}
                         \ {TestEndpoints[i] : i \in DOMAIN diag.probes["basicConnectivity"].acc}]_vars

\* during a report the connectivity timeout aborted two fetches at once;
\* the API fetch, as old, is still pending
C24_Witness ==
    /\ DOMAIN diag.probes = ProbeSet
    /\ op = [name |-> "timeout", controller |-> "basicConnectivity"]
    /\ diag.probes["basicConnectivity"].k = "return"
    /\ diag.probes["basicConnectivity"].result.details.successCount = 1
    /\ "api" \in DOMAIN net.requests
    /\ diag.probes["cloudflareApi"] = Awaiting("api", << >>)

-----------------------------------------------------------------------------
(* C25: termination of the probes *)

\* each probe called on its own
NextAlone ==
    \/ \E p \in ProbeSet : \E apiToken \in ApiTokens : StartDiagnostics({p}, apiToken)
    \/ \E call \in DOMAIN net.requests : \E out \in AnswersOf(call) : Answer(call, out)
    \/ \E c \in DOMAIN net.timeouts : Timeout(c)
    \/ TimePasses
    \/ ProbeReturns

\* timeouts that are due run, time passes, a function whose awaits have
\* settled returns; the network owes no answer
SpecAloneLive ==
    /\ InitTimed
    /\ [][NextAlone]_vars
    /\ WF_vars(\E c \in DOMAIN net.timeouts : Timeout(c))
    /\ WF_vars(TimePasses)
    /\ WF_vars(ProbeReturns)

\* C25: every probe called eventually returns, whether or not the network
\* answers: every pending call, the reading of a response body included, is
\* aborted by its timeout.
C25_EventuallyReturns == (diag.phase = "running") ~> (diag.phase = "done")

\* what holds instead: it returns unless the API probe is left reading the
\* body of the token response, which no timeout covers
EventuallyReturnsOrReadsBody ==
    (diag.phase = "running") ~> (diag.phase = "done" \/ ApiAt(diag, "json"))

-----------------------------------------------------------------------------
(* The shared store: mode controller, error handler, cache and a probe
   working on one localStorage *)

SAVED_BACKUP == "saved-config-backup"

\* a failure that enables offline mode and one that does not
SharedErrors ==
    {JObj(Field1("message", JStr(m))) : m \in {"Failed to fetch", "Malformed config"}}

SharedOptions == {JUndefined, JObj(Field1("enableAutoOffline", JBool(FALSE)))}

\* a damaged string under saved-config, and under another saved-config
\* key what saveConfigToLocal wrote
SavedEntries ==
    [k \in {SAVED_CONFIG, SAVED_BACKUP} |->
        IF k = SAVED_CONFIG THEN CorruptText
        ELSE JSONstringify(ConfigFile(Config("short", "account", "mars", "x"), 0,
                                      {"exportedBy", "description"}))]

\* analyzeError called on its own
CallAnalyzeErrorOf(error, context) ==
    /\ ret' = analyzeError(error, context)
    /\ op' = [name |-> "analyzeError", error |-> error, context |-> context]
    /\ toasts' = << >>
    /\ calls' = << >>
    /\ UNCHANGED << net, documents, networkStatus, workerPage, diag, localStorage,
                    storageFault, offlineConfig, onLine, now, timers, putLog, enabledBy >>

InitShared ==
    /\ \E blob \in {Absent, CorruptText} :
       \E entries \in [{"worker-code"} -> {CorruptText, OldEntry}] :
           localStorage = SavedEntries @@ StoreOf(blob, entries)
    /\ onLine \in BOOLEAN
    /\ InitCommon

NextShared ==
    \/ diag.phase # "running" /\ Construct
    \/ \E enabled \in BOOLEAN : CallSetOfflineMode(enabled)
    \/ CallIsOfflineMode
    \/ OnlineEvent
    \/ OfflineEvent
    \/ \E error \in SharedErrors : \E options \in SharedOptions :
           CallHandleError(error, JUndefined, options)
    \/ \E error \in SharedErrors : CallAnalyzeErrorOf(error, JUndefined)
    \/ CallCacheData("version-info", JStr("code"))
    \/ \E key \in CacheNames : CallGetCachedData(key)
    \/ CallCleanExpiredCache
    \/ CallGetCacheStats
    \/ Tick(CACHE_DURATION + 1, CacheClock)
    \/ StartDiagnostics({"corsSupport"}, JUndefined)
    \/ \E call \in DOMAIN net.requests : \E out \in AnswersOf(call) : Answer(call, out)
    \/ \E c \in DOMAIN net.timeouts : Timeout(c)
    \/ ProbeReturns

SpecShared == InitShared /\ [][NextShared]_vars

-----------------------------------------------------------------------------
(* C27: offline mode the handler enabled stays *)

\* handleError was the last to enable offline mode, and it is enabled
EnabledByHandler == enabledBy = "errorHandler" /\ Truthy(offlineConfig["enabled"])

\* the step is setOfflineMode(false) or the delivery of an 'online' event
Clears ==
    \/ op'.name = "online"
    \/ op'.name = "setOfflineMode" /\ ~op'.enabled

\* C27: once handleError has called setOfflineMode(true), every step but
\* setOfflineMode(false) and an 'online' event (analyzeError, handleError,
\* the cache operations, the probe, the passing of time, a reload) leaves
\* offlineConfig.enabled true and isOfflineMode() true, and the stored blob
\* loads as enabled.
C27_StickyOffline ==
    [][(EnabledByHandler /\ ~Clears) =>
          /\ offlineConfig'["enabled"] = JBool(TRUE)
          /\ isOfflineMode(offlineConfig', onLine') = JBool(TRUE)
          /\ (op'.name = "isOfflineMode" => ret' = JBool(TRUE))
          /\ loadOfflineConfig(DefaultOfflineConfig, localStorage', storageFault')["enabled"]
                 = JBool(TRUE)]_vars

\* the page was loaded again while online, after handleError had enabled
\* offline mode on a store that held no blob: the mode is back
C27_Witness ==
    /\ enabledBy = "errorHandler"
    /\ op.name = "construct"
    /\ onLine
    /\ offlineConfig["enabled"] = JBool(TRUE)
    /\ CacheKey("version-info") \in DOMAIN localStorage

-----------------------------------------------------------------------------
(* C28: key isolation in the shared store *)

\* the entries of the store under the keys K
Only(store, K) == [k \in DOMAIN store \cap K |-> store[k]]

\* the entries of the store under every key but those of K
Except(store, K) == [k \in DOMAIN store \ K |-> store[k]]

CacheKeysOf(store) == {k \in DOMAIN store : IsCacheKey(k)}

\* C28: cacheData(k, v) and getCachedData(k) change no key but cache-k and
\* getCachedData(k) returns what cache-k alone determines; cleanExpiredCache
\* changes no key without the cache- prefix; getCacheStats changes nothing
\* and returns what the cache- keys alone determine; so the blob and the
\* saved-config entries survive every cache operation; setOfflineMode
\* changes no key but offline-manager-data.
C28_KeyIsolation ==
    [][/\ op'.name \in {"cacheData", "getCachedData"} =>
            /\ Except(localStorage', {CacheKey(op'.key)})
                  = Except(localStorage, {CacheKey(op'.key)})
            /\ op'.name = "getCachedData" =>
                  ret' = getCachedData(Only(localStorage, {CacheKey(op'.key)}),
                                       op'.key, now, storageFault).ret
       /\ op'.name = "cleanExpiredCache" =>
            Except(localStorage', CacheKeysOf(localStorage))
               = Except(localStorage, CacheKeysOf(localStorage))
       /\ op'.name = "getCacheStats" =>
            /\ localStorage' = localStorage
            /\ ret' = getCacheStats(Only(localStorage, CacheKeysOf(localStorage)),
                                    now, storageFault)
       /\ op'.name \in {"cacheData", "getCachedData", "cleanExpiredCache", "getCacheStats"} =>
            Only(localStorage', {STORAGE_KEY, SAVED_CONFIG, SAVED_BACKUP})
               = Only(localStorage, {STORAGE_KEY, SAVED_CONFIG, SAVED_BACKUP})
       /\ op'.name = "setOfflineMode" =>
            Except(localStorage', {STORAGE_KEY}) = Except(localStorage, {STORAGE_KEY})]_vars

\* a sweep has removed the damaged and the expired cache entries and left
\* the blob and the saved-config entries, a damaged one included
C28_Witness ==
    /\ op.name = "cleanExpiredCache"
    /\ CacheKeysOf(localStorage) = {}
    /\ now > CACHE_DURATION
    /\ STORAGE_KEY \in DOMAIN localStorage
    /\ localStorage[SAVED_CONFIG] = CorruptText
    /\ localStorage[SAVED_BACKUP] # CorruptText
    /\ putLog["version-info"].at = 0

-----------------------------------------------------------------------------
(* NetworkStatus: the connectivity banner *)

HIDE_DELAY_MS == 3000

MaxBannerTicks == 6   \* the clock of the banner runs over MaxBannerTicks seconds
MaxHideTimers  == 2   \* hide timers pending at a time

BannerClock == {n * 1000 : n \in 0..MaxBannerTicks}

\* the component after its first render and effect: useState(navigator.onLine),
\* useState(false), then setShowStatus(true) if the browser is offline
MountNetworkStatus(online) ==
    [mounted |-> TRUE, isOnline |-> online, showStatus |-> ~online,
     hideTimers |-> << >>, lastEvent |-> "none"]

\* handleOnline; the timer it starts is kept by nobody and never cleared
handleOnline(c, t) ==
    [c EXCEPT !.isOnline = TRUE, !.showStatus = TRUE,
              !.hideTimers = Append(@, t + HIDE_DELAY_MS), !.lastEvent = "online"]

\* handleOffline
handleOffline(c) ==
    [c EXCEPT !.isOnline = FALSE, !.showStatus = TRUE, !.lastEvent = "offline"]

\* the callback of the timer: setShowStatus(false)
hideStatus(c) == [c EXCEPT !.showStatus = FALSE, !.hideTimers = Tail(@)]

\* what the component renders: nothing, or the banner, visible
\* (opacity-100) or faded out (opacity-0)
Render(c) ==
    IF ~c.showStatus /\ c.isOnline THEN "nothing"
    ELSE IF c.showStatus THEN "visible" ELSE "faded-out"

BannerStep(c, o, toast) ==
    /\ networkStatus' = c
    /\ op' = o
    /\ toasts' = toast
    /\ ret' = JUndefined
    /\ calls' = << >>
    /\ UNCHANGED << net, documents, workerPage, diag, localStorage, storageFault,
                    offlineConfig, now, timers, putLog, enabledBy >>

\* connectivity returns and the component's listener runs
BannerOnline ==
    /\ ~onLine
    /\ Len(networkStatus.hideTimers) < MaxHideTimers
    /\ onLine' = TRUE
    /\ BannerStep(handleOnline(networkStatus, now), [name |-> "online"],
                  << Toast("success", "network-restored") >>)

\* connectivity is lost and the component's listener runs
BannerOffline ==
    /\ onLine
    /\ onLine' = FALSE
    /\ BannerStep(handleOffline(networkStatus), [name |-> "offline"],
                  << Toast("error", "network-lost") >>)

\* a hide timer that is due runs
HideTimerFires ==
    /\ networkStatus.hideTimers # << >>
    /\ Head(networkStatus.hideTimers) <= now
    /\ UNCHANGED onLine
    /\ BannerStep(hideStatus(networkStatus), [name |-> "hideTimer"], << >>)

\* time passes, no further than the next hide timer
BannerTimePasses ==
    /\ \A i \in 1..Len(networkStatus.hideTimers) : networkStatus.hideTimers[i] > now
    /\ Tick(1000, BannerClock)

\* everything but the page at rest
InitAtRest ==
    /\ localStorage = << >>
    /\ storageFault = "none"
    /\ offlineConfig = DefaultOfflineConfig
    /\ now = 0
    /\ timers = << >>
    /\ toasts = << >>
    /\ calls = << >>
    /\ op = [name |-> "mount"]
    /\ ret = JUndefined
    /\ putLog = [n \in CacheNames |-> NoPut]
    /\ enabledBy = "nobody"
    /\ diag = DiagIdle
    /\ net = NetIdle
    /\ documents = NoDocuments

InitBanner ==
    /\ InitAtRest
    /\ onLine \in BOOLEAN
    /\ networkStatus = MountNetworkStatus(onLine)
    /\ workerPage = WorkerPageUnmounted

NextBanner ==
    \/ BannerOnline
    \/ BannerOffline
    \/ HideTimerFires
    \/ BannerTimePasses

SpecBanner == InitBanner /\ [][NextBanner]_vars

\* C29: whenever the most recent connectivity event was 'offline', the
\* banner is shown: isOnline is false and showStatus is true, whatever the
\* order of 'online' events, 'offline' events and hide timers.
C29_OfflineBannerShown ==
    networkStatus.lastEvent = "offline" =>
        ~networkStatus.isOnline /\ networkStatus.showStatus

\* what holds instead: after an 'offline' event isOnline is false, and the
\* banner is visible unless a hide timer of an earlier 'online' event has run
OfflineBannerRendered ==
    networkStatus.lastEvent = "offline" =>
        ~networkStatus.isOnline /\ Render(networkStatus) \in {"visible", "faded-out"}

-----------------------------------------------------------------------------
(* WorkerManagement: the busy flags and the worker status *)

AUTO_TEST_DELAY_MS == 2000

MaxWorkerTicks == 3   \* the clock of the page runs over MaxWorkerTicks seconds
MaxInFlight    == 3   \* operations in flight at a time
MaxTestTimers  == 1   \* automatic tests pending at a time

WorkerClock == {n * 1000 : n \in 0..MaxWorkerTicks}

\* how a request of the page ends: a 2xx response whose body reads, a 2xx
\* response whose body fails to read, 404, another status, no response
WorkerAnswers == {"ok", "body-throws", "not-found", "server-error", "network-error"}

\* what fetch and the body readers reject with, and the Error the handlers
\* throw on a status (its message ends with the status)
FetchTypeError == [name |-> "TypeError", message |-> "Failed to fetch"]
StatusError    == [name |-> "Error", message |-> "500"]

isCorsError(error) ==
    \/ error.message = "Failed to fetch"
    \/ error.name = "TypeError"
    \/ Occurrences(error.message, "CORS") # {}
    \/ Occurrences(error.message, "net::ERR_FAILED") # {}

\* the catch block the three operations share
StatusOfError(error) == IF isCorsError(error) THEN "offline" ELSE "error"

\* fetchWorkerCode from its await to its end: the status it sets
fetchWorkerCode(out) ==
    CASE out = "ok"            -> "running"
      [] out = "not-found"     -> "not_deployed"
      [] out = "server-error"  -> StatusOfError(StatusError)
      [] OTHER                 -> StatusOfError(FetchTypeError)

\* updateWorkerCode from its await to its end: the status it sets and
\* whether it schedules testWorker
updateWorkerCode(out) ==
    CASE out \in {"ok", "body-throws"} -> [workerStatus |-> "running", autoTest |-> TRUE]
      [] out = "network-error" ->
            [workerStatus |-> StatusOfError(FetchTypeError), autoTest |-> FALSE]
      [] OTHER ->
            [workerStatus |-> StatusOfError(StatusError), autoTest |-> FALSE]

\* testWorker from its await to its end: the status it sets; a body that
\* is no JSON is caught by the inner try
testWorker(out) ==
    CASE out \in {"ok", "body-throws"} -> "running"
      [] out = "not-found"     -> "not_deployed"
      [] out = "server-error"  -> StatusOfError(StatusError)
      [] OTHER                 -> StatusOfError(FetchTypeError)

\* the setter each operation calls first and in its finally block
BusyFlag ==
    [fetchWorkerCode |-> "isLoading", updateWorkerCode |-> "isUpdating",
     testWorker |-> "isTesting"]

\* an operation starts: its flag is set and its request leaves
Begin(page, kind) ==
    [page EXCEPT ![BusyFlag[kind]] = TRUE, !.inFlight = Append(@, kind)]

\* the i-th operation in flight runs to its end: status, then finally
End(page, i, status) ==
    [page EXCEPT ![BusyFlag[page.inFlight[i]]] = FALSE,
                 !.workerStatus = status,
                 !.inFlight = SubSeq(@, 1, i - 1) \o SubSeq(@, i + 1, Len(@))]

\* the page after its first render and effect: fetchWorkerCode is running
MountWorkerPage ==
    Begin([WorkerPageUnmounted EXCEPT !.mounted = TRUE], "fetchWorkerCode")

InFlight(kind) ==
    Cardinality({i \in 1..Len(workerPage.inFlight) : workerPage.inFlight[i] = kind})

WorkerStep(page, o) ==
    /\ workerPage' = page
    /\ op' = o
    /\ toasts' = << >>
    /\ ret' = JUndefined
    /\ calls' = << >>
    /\ UNCHANGED << net, documents, networkStatus, diag, localStorage, storageFault,
                    offlineConfig, onLine, now, timers, putLog, enabledBy >>

\* a button is clicked; it is disabled while its flag is set
Click(kind) ==
    /\ ~workerPage[BusyFlag[kind]]
    /\ Len(workerPage.inFlight) < MaxInFlight
    /\ WorkerStep(Begin(workerPage, kind), [name |-> "click", kind |-> kind])

\* versionInfo changes in the store and the effect calls fetchWorkerCode
VersionInfoChanges ==
    /\ Len(workerPage.inFlight) < MaxInFlight
    /\ WorkerStep(Begin(workerPage, "fetchWorkerCode"), [name |-> "versionInfo"])

\* the request of the i-th operation in flight ends
Settles(i, out) ==
    /\ i \in 1..Len(workerPage.inFlight)
    /\ LET kind == workerPage.inFlight[i]
           o == [name |-> "settled", kind |-> kind, out |-> out]
       IN  CASE kind = "fetchWorkerCode" ->
                  WorkerStep(End(workerPage, i, fetchWorkerCode(out)), o)
             [] kind = "testWorker" ->
                  WorkerStep(End(workerPage, i, testWorker(out)), o)
             [] OTHER ->
                  LET r == updateWorkerCode(out)
                  IN  /\ r.autoTest => Len(workerPage.testTimers) < MaxTestTimers
                      /\ WorkerStep([End(workerPage, i, r.workerStatus) EXCEPT
                                        !.testTimers =
                                            IF r.autoTest
                                            THEN Append(@, now + AUTO_TEST_DELAY_MS)
                                            ELSE @], o)

\* the timer of a successful update runs: testWorker()
AutoTest ==
    /\ workerPage.testTimers # << >>
    /\ Head(workerPage.testTimers) <= now
    /\ Len(workerPage.inFlight) < MaxInFlight
    /\ WorkerStep([Begin(workerPage, "testWorker") EXCEPT !.testTimers = Tail(@)],
                  [name |-> "autoTest"])

\* time passes, no further than the next automatic test
WorkerTimePasses ==
    /\ \A i \in 1..Len(workerPage.testTimers) : workerPage.testTimers[i] > now
    /\ Tick(1000, WorkerClock)

InitWorker ==
    /\ InitAtRest
    /\ onLine = TRUE
    /\ networkStatus = NetworkStatusUnmounted
    /\ workerPage = MountWorkerPage

NextWorker ==
    \/ \E kind \in DOMAIN BusyFlag : Click(kind)
    \/ VersionInfoChanges
    \/ \E i \in 1..Len(workerPage.inFlight) : \E out \in WorkerAnswers : Settles(i, out)
    \/ AutoTest
    \/ WorkerTimePasses

SpecWorker == InitWorker /\ [][NextWorker]_vars

WorkerStatuses == {"running", "not_deployed", "offline", "error"}

\* C30: each busy flag is true exactly while an operation of its kind is
\* in flight, under every interleaving of clicks, the fetch of the
\* version-info effect and the automatic test; every operation that has
\* ended left workerStatus in one of running, not_deployed, offline, error.
C30_BusyFlagsExact ==
    /\ \A kind \in DOMAIN BusyFlag : workerPage[BusyFlag[kind]] <=> InFlight(kind) > 0
    /\ op.name = "settled" => workerPage.workerStatus \in WorkerStatuses

\* what holds instead: a flag is false when no operation of its kind is in
\* flight, isUpdating is exact (only the disabled button starts an update),
\* and the status is one of the four after every operation
BusyFlagsFalseWhenIdle ==
    /\ \A kind \in DOMAIN BusyFlag : workerPage[BusyFlag[kind]] => InFlight(kind) > 0
    /\ workerPage.isUpdating <=> InFlight("updateWorkerCode") > 0
    /\ InFlight("updateWorkerCode") <= 1
    /\ op.name = "settled" => workerPage.workerStatus \in WorkerStatuses

====
